---- MODULE Spec2Model ----
(***************************************************************************)
(* A model of the chat relay of davileichs/payb-ai: the conversation store *)
(* (app/core/utils/conversation_manager.py), the provider routing table    *)
(* (app/core/utils/provider_manager.py) and the per-turn orchestration of  *)
(* ChatProcessor.process_message (app/core/chat_processor.py).             *)
(*                                                                         *)
(* The program runs on one asyncio event loop: a coroutine runs without    *)
(* interruption between two awaits, so every action below is the code      *)
(* between two suspension points of a handler.                             *)
(***************************************************************************)
EXTENDS Integers, Sequences, FiniteSets, TLC

\* ------------------------------------------------------------------ inputs

Users == {"u1", "u2"}
Channels == {"c1", "c2"}
Turns == {"t1", "t2"}
ProviderNames == {"openai", "ollama"}

\* Python's None, and the result key process_message leaves out.
None == "None"

\* max_messages_per_conversation (MAX_MESSAGES_PER_CONVERSATION), scaled down
\* from its default of 100 so that trimming happens within two turns.
MaxMessagesPerConversation == 3

\* The environment the process was started with (app/config.py).
VARIABLE settings

\* self.max_messages_per_conversation of the ConversationManager, and
\* settings.max_messages_per_conversation of the ChatProcessor.
max_messages_per_conversation == settings.max_messages_per_conversation

\* A limit under which two turns of one channel fit without a trim.
RoomyMaxMessages == 5

\* Direct calls of the store's operations that one behaviour may hold, and the
\* /clear commands that may arrive while turns run.
MaxDirectCalls == 4
MaxClears == 1
MaxPendingTasks == 1
MaxFrameCalls == 2

\* ------------------------------------------------------------ dictionaries

\* A Python dict is a function whose domain is the set of its keys.
EmptyDict == [k \in {} |-> None]

Has(d, k) == k \in DOMAIN d

Put(d, k, v) == [x \in DOMAIN d \cup {k} |-> IF x = k THEN v ELSE d[x]]

Del(d, k) == [x \in DOMAIN d \ {k} |-> d[x]]

\* dict.get(key, default)
Get(d, k, default) == IF k \in DOMAIN d THEN d[k] ELSE default

\* ---------------------------------------------------------------- sequences

\* Python's s[-n:]: the last n elements, and the whole list when n = 0
\* (since -0 = 0) or n >= len(s).
LastN(s, n) ==
    IF n <= 0 \/ n >= Len(s) THEN s
    ELSE SubSeq(s, Len(s) - n + 1, Len(s))

RECURSIVE Filter(_, _)
Filter(s, roles) ==
    IF s = <<>> THEN <<>>
    ELSE IF Head(s).role \in roles
         THEN <<Head(s)>> \o Filter(Tail(s), roles)
         ELSE Filter(Tail(s), roles)

Range(s) == {s[i] : i \in 1..Len(s)}

\* ------------------------------------------------------- conversation store

\* Message: role, content (a string, kept as the sequence of the pieces it is
\* formatted from), metadata (the sender), and `origin`, which stands for the
\* message's timestamp: the turn, or the direct call, that created the object.
Message(role, content, sender, origin) ==
    [role |-> role, content |-> content, sender |-> sender, origin |-> origin]

\* Message.to_dict / the entries of get_llm_context: role and content only.
ToDict(msg) == [role |-> msg.role, content |-> msg.content]

\* A user message stored as it was sent.
UserUntaggedContent(user_id, content) == <<content>>

\* user_tagged_content = f"[{user_id}]: {content}"
UserTaggedContent(user_id, content) == <<"[", user_id, "]: ", content>>

\* tool_content = f"Tool {tool_name} executed: {tool_result}"
ToolContent(tool_name, tool_result) ==
    <<"Tool ", tool_name, " executed: ", tool_result>>

\* A key that tells the users of a channel apart.
ConversationKeyPerUser(user_id, channel_id) == <<user_id, channel_id>>

\* conversation_key = channel_id
ConversationKey(user_id, channel_id) == <<channel_id>>

NewConversation(channel_id, provider) ==
    [user_id |-> "shared", channel_id |-> channel_id, provider |-> provider,
     messages |-> <<>>]

GetOrCreateConversation(convs, user_id, channel_id, provider) ==
    LET key == ConversationKey(user_id, channel_id)
    IN  IF Has(convs, key) THEN convs
        ELSE Put(convs, key, NewConversation(channel_id, provider))

\* updated_at after a call that left the store as `convs`: the conversation
\* under `key` was created or given a message when `written`, and it is the
\* newest if it is there; removed conversations are gone.
Touch(order, convs, key, written) ==
    LET rest == SelectSeq(order, LAMBDA k : /\ k \in DOMAIN convs
                                           /\ ~(written /\ k = key))
    IN  IF written /\ key \in DOMAIN convs THEN Append(rest, key) ELSE rest

\* An add_message that writes back the caller's own copy of the list: what
\* others appended meanwhile is gone.
AddMessageOverwriting(conv, role, content, sender, origin) ==
    [conv EXCEPT !.messages =
        Append(SelectSeq(@, LAMBDA m : m.origin = origin),
               Message(role, content, sender, origin))]

\* Conversation.add_message
AddMessage(conv, role, content, sender, origin) ==
    [conv EXCEPT !.messages = Append(@, Message(role, content, sender, origin))]

TrimConversation(conv) ==
    IF Len(conv.messages) > max_messages_per_conversation
    THEN LET system_messages == Filter(conv.messages, {"system"})
             other_messages == Filter(conv.messages, {"user", "assistant", "tool"})
             recent_messages == LastN(other_messages, max_messages_per_conversation)
         IN  [conv EXCEPT !.messages = system_messages \o recent_messages]
    ELSE conv

\* A limit check that keeps the newest message only.
CheckMessageLimitKeepsOne(conv) ==
    [conv EXCEPT !.messages = LastN(@, 1)]

\* "Check message limit" of add_user_message and add_ai_response
CheckMessageLimit(conv) ==
    IF Len(conv.messages) > max_messages_per_conversation
    THEN TrimConversation(conv)
    ELSE conv

AddUserMessage(convs, user_id, channel_id, content, provider, origin) ==
    LET key == ConversationKey(user_id, channel_id)
        cs == GetOrCreateConversation(convs, user_id, channel_id, provider)
        conv == AddMessage(cs[key], "user",
                           UserTaggedContent(user_id, content), user_id, origin)
    IN  Put(cs, key, CheckMessageLimit(conv))

\* An add_ai_response that opens the conversation it does not find.
AddAiResponseCreating(convs, user_id, channel_id, content, origin) ==
    LET key == ConversationKey(user_id, channel_id)
        cs == GetOrCreateConversation(convs, user_id, channel_id, None)
    IN  Put(cs, key, AddMessage(cs[key], "assistant", content, None, origin))

\* An add_ai_response that stores nothing.
AddAiResponseDropped(convs, user_id, channel_id, content, origin) == convs

AddAiResponse(convs, user_id, channel_id, content, origin) ==
    LET key == ConversationKey(user_id, channel_id)
    IN  IF Has(convs, key)
        THEN Put(convs, key,
                 CheckMessageLimit(AddMessage(convs[key], "assistant", content,
                                              None, origin)))
        ELSE convs

\* What add_ai_response and add_tool_result return: the conversation, or None.
StoreReturn(convs, user_id, channel_id) ==
    IF Has(convs, ConversationKey(user_id, channel_id)) THEN "conversation"
    ELSE None

AddToolResult(convs, user_id, channel_id, tool_name, tool_result, origin) ==
    LET key == ConversationKey(user_id, channel_id)
    IN  IF Has(convs, key)
        THEN Put(convs, key,
                 AddMessage(convs[key], "tool",
                            ToolContent(tool_name, tool_result), None, origin))
        ELSE convs

RECURSIVE LlmMessages(_)
LlmMessages(s) ==
    IF s = <<>> THEN <<>>
    ELSE IF Head(s).role \in {"user", "assistant"}
         THEN <<ToDict(Head(s))>> \o LlmMessages(Tail(s))
         ELSE LlmMessages(Tail(s))

\* A context that keeps every role.
GetLlmContextUnfiltered(conv, max_messages) ==
    LET recent == LastN(conv.messages, max_messages)
    IN  [i \in DOMAIN recent |-> ToDict(recent[i])]

\* Conversation.get_llm_context
GetLlmContext(conv, max_messages) ==
    LlmMessages(LastN(conv.messages, max_messages))

\* get_conversation_context; max_messages is <<>> for None, <<n>> for n.
GetConversationContext(convs, user_id, channel_id, max_messages) ==
    LET key == ConversationKey(user_id, channel_id)
    IN  IF Has(convs, key)
        THEN GetLlmContext(convs[key],
                           IF max_messages = <<>> THEN max_messages_per_conversation
                           ELSE max_messages[1])
        ELSE <<>>

\* A clear that empties the whole store.
ClearConversationStoreAll(convs, user_id, channel_id) == EmptyDict

\* clear_conversation: the dict afterwards, and its return value.
ClearConversationStore(convs, user_id, channel_id) ==
    LET key == ConversationKey(user_id, channel_id)
    IN  IF Has(convs, key) THEN Del(convs, key) ELSE convs

ClearConversationReturn(convs, user_id, channel_id) ==
    Has(convs, ConversationKey(user_id, channel_id))

\* seq[:stop] of Python: a negative stop counts from the end, and -0 is 0.
SliceTo(s, stop) ==
    LET end == IF stop < 0
               THEN (IF Len(s) + stop < 0 THEN 0 ELSE Len(s) + stop)
               ELSE (IF stop > Len(s) THEN Len(s) ELSE stop)
    IN  SubSeq(s, 1, end)

RECURSIVE DelAll(_, _)
DelAll(convs, removed_keys) ==
    IF removed_keys = <<>> THEN convs
    ELSE DelAll(Del(convs, Head(removed_keys)), Tail(removed_keys))

\* ConversationManager.cleanup_conversations: `order` is the keys sorted by
\* updated_at; max_conversations is <<>> for None and <<k>> for k.
CleanupConversations(convs, order, max_conversations) ==
    IF max_conversations = <<>>
    THEN [conversations |-> convs, removed_keys |-> <<>>, ret |-> 0]
    ELSE IF Cardinality(DOMAIN convs) <= max_conversations[1]
         THEN [conversations |-> convs, removed_keys |-> <<>>, ret |-> 0]
         ELSE LET removed_keys == SliceTo(order, 0 - max_conversations[1])
              IN  [conversations |-> DelAll(convs, removed_keys),
                   removed_keys |-> removed_keys,
                   ret |-> Len(removed_keys)]

\* -------------------------------------------------------------- persistence

\* The backing store as the process finds it: `redis` is "unset" when
\* redis_host is not configured (use_redis is false), "up" when connect()
\* succeeded and commands work, "failing" when the client exists and its
\* commands raise, "None" when connect() failed and left redis_client None.
RedisStates == {"unset", "up", "failing", "None"}

\* self.use_redis
UseRedis(redis) == redis # "unset"

\* Conversation.to_dict: the record that is written.
ConversationToDict(conv) ==
    [user_id |-> conv.user_id, channel_id |-> conv.channel_id,
     messages |-> LET kept == SelectSeq(conv.messages, LAMBDA m : m.role # "tool")
                  IN  [i \in DOMAIN kept |-> ToDict(kept[i])]]

\* RedisConversationStorage._get_key: prefix, "channel:", channel id.
GetKey(user_id, channel_id) == <<"slack_bot:conversation:", "channel:", channel_id>>

\* RedisConversationStorage.save_conversation, once the command has been
\* answered: the record is set, or the exception is logged and False returned.
SaveConversation(redis, store, data) ==
    IF redis = "up"
    THEN [store |-> Put(store, GetKey(data.user_id, data.channel_id), data),
          ret |-> "True"]
    ELSE [store |-> store, ret |-> "False"]

\* RedisConversationStorage.delete_conversation, once the command has been
\* answered.
DeleteConversation(redis, store, user_id, channel_id) ==
    IF redis = "up"
    THEN [store |-> Del(store, GetKey(user_id, channel_id)), ret |-> "True"]
    ELSE [store |-> store, ret |-> "False"]

\* The tasks loop.create_task is given: _save_conversations, and
\* redis_storage.delete_conversation("shared", channel_id). `pc` is "start"
\* until the task first runs, then "command" while it awaits the answer to
\* the command `write`; `size` and `visited` are the state of the iteration
\* over self.conversations.values().
NoWrite == [key |-> <<>>, data |-> <<>>]

SaveTask ==
    [kind |-> "save", pc |-> "start", channel_id |-> None, size |-> 0,
     visited |-> {}, write |-> NoWrite]

DeleteTask(channel_id) ==
    [kind |-> "delete", pc |-> "start", channel_id |-> channel_id, size |-> 0,
     visited |-> {}, write |-> NoWrite]

\* What a handler has scheduled so far, and whether a call of it raised.
Scheduled(pending) == [tasks |-> pending, raised |-> FALSE]

\* A save that runs inside the call and hands its failure to the caller.
SaveConversationsInline(redis, sync) ==
    [tasks |-> sync.tasks,
     raised |-> sync.raised \/ (UseRedis(redis) /\ redis # "up")]

\* _save_conversations_sync on the running loop: the save is handed to
\* create_task and the call returns; a RuntimeError is swallowed. The task
\* does nothing unless use_redis, so none is recorded without it.
SaveConversationsSync(redis, sync) ==
    [tasks |-> IF UseRedis(redis) THEN Append(sync.tasks, SaveTask) ELSE sync.tasks,
     raised |-> sync.raised]

\* n calls of _save_conversations_sync in a row.
RECURSIVE SaveEach(_, _, _)
SaveEach(redis, sync, n) ==
    IF n = 0 THEN sync
    ELSE SaveEach(redis, SaveConversationsSync(redis, sync), n - 1)

\* The create_task of clear_conversation, made only under use_redis.
ScheduleDelete(redis, sync, channel_id) ==
    [tasks |-> IF UseRedis(redis) THEN Append(sync.tasks, DeleteTask(channel_id))
               ELSE sync.tasks,
     raised |-> sync.raised]

\* ------------------------------------------------- settings and providers

\* The environment the process starts with (app/config.py): the configured
\* provider, whether an OpenAI key is unset, empty or set, whether the
\* Ollama base URL is empty or set, and the limit on the messages of a
\* conversation.
Configs ==
    { [ai_provider |-> "openai", openai_api_key |-> "set",   ollama_base_url |-> "set",
        max_messages_per_conversation |-> MaxMessagesPerConversation],
      [ai_provider |-> "ollama", openai_api_key |-> "set",   ollama_base_url |-> "set",
        max_messages_per_conversation |-> MaxMessagesPerConversation],
      [ai_provider |-> "openai", openai_api_key |-> "empty", ollama_base_url |-> "set",
        max_messages_per_conversation |-> MaxMessagesPerConversation],
      [ai_provider |-> "ollama", openai_api_key |-> "unset", ollama_base_url |-> "empty",
        max_messages_per_conversation |-> MaxMessagesPerConversation],
      [ai_provider |-> "openai", openai_api_key |-> "unset", ollama_base_url |-> "empty",
        max_messages_per_conversation |-> MaxMessagesPerConversation] }

\* A provider class can be instantiated: OllamaProvider() always, OpenAIProvider()
\* unless openai.OpenAI(api_key=None) raises for want of a key.
Constructible(cfg, name) ==
    \/ name = "ollama"
    \/ name = "openai" /\ cfg.openai_api_key # "unset"

\* ChatProcessor._discover_providers: the names whose instance could be built.
DiscoverProviders(cfg) == {name \in ProviderNames : Constructible(cfg, name)}

\* OpenAIProvider.is_available / OllamaProvider.is_available
IsAvailable(cfg, name) ==
    IF name = "openai" THEN cfg.openai_api_key = "set"
    ELSE cfg.ollama_base_url = "set"

\* ChatProcessor.__init__: the values current_provider can take. The loop over
\* self.providers follows os.listdir's order, so any available provider may be
\* the first one found.
InitCurrentProvider(cfg) ==
    LET providers == DiscoverProviders(cfg)
        found == {name \in providers : IsAvailable(cfg, name)}
    IN  IF providers = {} THEN {"none"}
        ELSE IF cfg.ai_provider \notin providers \/ ~IsAvailable(cfg, cfg.ai_provider)
             THEN IF found = {} THEN {cfg.ai_provider} ELSE found
             ELSE {cfg.ai_provider}

\* The guard opening process_message: no provider object to talk to.
NoProviderObject(cfg, current) ==
    \/ DiscoverProviders(cfg) = {}
    \/ current = "none"
    \/ current \notin DiscoverProviders(cfg)

\* ------------------------------------------------------ provider routing

\* str.lower() on the provider names callers send.
Lower(name) ==
    CASE name = "OpenAI" -> "openai"
      [] name = "OLLAMA" -> "ollama"
      [] OTHER -> name

\* ProviderManager.__init__ builds the default provider's instance and raises
\* when that fails; get_provider_manager then raises on every call.
ManagerUp(cfg) == Constructible(cfg, Lower(cfg.ai_provider))

DefaultProviderName(cfg) == Lower(cfg.ai_provider)

\* A check that takes every name whose provider can be built or is unknown.
SetProviderReturnAnyName(cfg, provider_name) ==
    Lower(provider_name) \in {"openai", "ollama"} => Constructible(cfg, Lower(provider_name))

\* set_provider_for_channel: its return value, and the bindings afterwards.
SetProviderReturn(cfg, provider_name) ==
    /\ Lower(provider_name) \in {"openai", "ollama"}
    /\ Constructible(cfg, Lower(provider_name))

SetProviderForChannel(cfg, bindings, channel_id, provider_name) ==
    IF SetProviderReturn(cfg, provider_name)
    THEN Put(bindings, channel_id, Lower(provider_name))
    ELSE bindings

GetChannelProviderName(cfg, bindings, channel_id) ==
    Get(bindings, channel_id, DefaultProviderName(cfg))

\* A reset that leaves the binding in place.
ClearChannelProviderKept(bindings, channel_id) == bindings

\* clear_channel_provider
ClearChannelProvider(bindings, channel_id) ==
    IF Has(bindings, channel_id) THEN Del(bindings, channel_id) ELSE bindings

\* GET /api/ai/provider/status/{channel_id}
GetProviderStatus(cfg, bindings, channel_id) ==
    [channel_id |-> channel_id,
     current_provider |-> GetChannelProviderName(cfg, bindings, channel_id),
     default_provider |-> DefaultProviderName(cfg),
     is_custom |-> Has(bindings, channel_id)]

\* ------------------------------------------------------------------ agents

\* The agent configuration file; the fallback of _load_agents_config has no
\* agents at all, this one has two.
AgentsConfig ==
    [agents |->
        [general |-> [system_prompt |-> "general_prompt", tools |-> <<"weather">>],
         support |-> [system_prompt |-> "support_prompt",
                      tools |-> <<"weather", "docs">>]],
     tool_categories |->
        [weather |-> <<"WeatherTool">>, docs |-> <<"PayablDocsSearch">>],
     default_agent |-> "general"]

\* key = f"{user_id}:{channel_id}"
UserAgentKey(user_id, channel_id) == <<user_id, channel_id>>

\* AgentManagerTool.get_user_agent
GetUserAgent(agents, user_id, channel_id) ==
    Get(agents, UserAgentKey(user_id, channel_id), "general")

\* What _load_agents_config returns when the file cannot be opened or parsed.
FallbackAgentsConfig ==
    [agents |-> EmptyDict, tool_categories |-> EmptyDict,
     default_agent |-> "general"]

\* A second configuration file: other agents, and a default agent that is not
\* called "general".
SupportAgentsConfig ==
    [agents |->
        [support |-> [system_prompt |-> "support_prompt",
                      tools |-> <<"weather", "docs">>],
         triage |-> [system_prompt |-> "triage_prompt", tools |-> <<"docs">>]],
     tool_categories |->
        [weather |-> <<"WeatherTool">>, docs |-> <<"PayablDocsSearch">>],
     default_agent |-> "support"]

\* What agents.json can hold: one of two configurations, text that is not
\* JSON, or nothing at all (the file is missing or unreadable).
AgentsFiles == {"general_default", "support_default", "malformed", "missing"}

FileRaises(file) == file \in {"malformed", "missing"}

\* json.load(open(config_path)) of a file that parses
JsonLoad(file) ==
    IF file = "general_default" THEN AgentsConfig ELSE SupportAgentsConfig

\* AgentManager._load_agents_config: every exception is caught inside and
\* answered with the fallback.
LoadAgentsConfig(file) ==
    IF FileRaises(file) THEN FallbackAgentsConfig ELSE JsonLoad(file)

\* A reload that alternates between what the file holds and the fallback.
ReloadAgentsConfigAlternating(old_config, file) ==
    IF old_config = LoadAgentsConfig(file)
    THEN [config |-> FallbackAgentsConfig, ret |-> "True"]
    ELSE [config |-> LoadAgentsConfig(file), ret |-> "True"]

\* AgentManager.reload_agents_config: the configuration it leaves and what it
\* returns. Its except branch needs _load_agents_config to raise, which it
\* never does.
ReloadAgentsConfig(old_config, file) ==
    [config |-> LoadAgentsConfig(file), ret |-> "True"]

\* self.default_agent = self.agents_config.get("default_agent", "general")
DefaultAgent(config) == config.default_agent

\* AgentManager.get_all_agents_info
GetAllAgentsInfo(config) == config.agents

\* AgentManager.get_agent_system_prompt of a manager holding `config`
AgentSystemPromptIn(config, agent_id) ==
    IF agent_id \in DOMAIN config.agents
    THEN config.agents[agent_id].system_prompt
    ELSE ""

RECURSIVE CategoryToolsIn(_, _)
CategoryToolsIn(config, categories) ==
    IF categories = <<>> THEN <<>>
    ELSE Get(config.tool_categories, Head(categories), <<>>)
         \o CategoryToolsIn(config, Tail(categories))

\* AgentManager.get_agent_tools of a manager holding `config`
AgentToolsIn(config, agent_id) ==
    IF agent_id \in DOMAIN config.agents
    THEN CategoryToolsIn(config, config.agents[agent_id].tools)
    ELSE <<>>

\* AgentManager.get_user_system_prompt and get_user_tools of a manager holding
\* `config`: the agent is the one get_user_agent answers.
UserSystemPromptIn(config, agents, user_id, channel_id) ==
    AgentSystemPromptIn(config, GetUserAgent(agents, user_id, channel_id))

UserToolsIn(config, agents, user_id, channel_id) ==
    AgentToolsIn(config, GetUserAgent(agents, user_id, channel_id))

GetAgentSystemPrompt(agent_id) == AgentSystemPromptIn(AgentsConfig, agent_id)

CategoryTools(categories) == CategoryToolsIn(AgentsConfig, categories)

GetAgentTools(agent_id) == AgentToolsIn(AgentsConfig, agent_id)

GetUserSystemPrompt(agents, user_id, channel_id) ==
    GetAgentSystemPrompt(GetUserAgent(agents, user_id, channel_id))

GetUserTools(agents, user_id, channel_id) ==
    GetAgentTools(GetUserAgent(agents, user_id, channel_id))

\* ------------------------------------------------------------------- tools

\* The tool registry: the five tools app/core/tools/__init__.py registers and
\* one more registered with register_tool, whose results carry the
\* provider_switch directive process_message looks for.
RegisteredTools ==
    {"WeatherTool", "ProviderHandle", "ConversationManagerTool",
     "AgentManagerTool", "PayablDocsSearch", "SwitchDirectiveTool"}

\* A tool call as the model asks for it. id: None when a dict has no "id"; arguments: "json" (a JSON
\* string), "malformed" (a string json.loads rejects) or "parsed" (an
\* already-parsed structure, which json.loads rejects with a TypeError);
\* effect: what the named tool does with these arguments (it returns a
\* ToolResult with success true or false, raises, or returns a result whose
\* metadata asks for a switch to the provider `target`).
ToolCall(id, name, arguments, effect, target) ==
    [id |-> id, name |-> name, arguments |-> arguments, effect |-> effect,
     target |-> target]

OkCall == ToolCall("call_a", "WeatherTool", "json", "success", None)
DocsCall == ToolCall("call_b", "PayablDocsSearch", "json", "success", None)
MissingCall == ToolCall("call_m", "NonExistentTool", "json", "success", None)
RaisingCall == ToolCall("call_r", "WeatherTool", "json", "raises", None)
FailingCall == ToolCall("call_f", "WeatherTool", "json", "failure", None)
MalformedCall == ToolCall("call_x", "WeatherTool", "malformed", "success", None)
NativeOllamaCall == ToolCall(None, "WeatherTool", "parsed", "success", None)
SwitchCall(p) == ToolCall("call_s", "SwitchDirectiveTool", "json", "provider_switch", p)
\* AgentManagerTool with action "switch", agent_id a and the ids of the turn's
\* user and channel.
AgentSwitchCall(a) == ToolCall("call_g", "AgentManagerTool", "json", "agent_switch", a)

\* The batches of tool calls a provider's answer may carry.
ToolBatches ==
    { <<OkCall, DocsCall>>, <<MissingCall, OkCall, RaisingCall>>,
      <<MalformedCall, FailingCall>>, <<NativeOllamaCall>> }

\* Batches asking for a switch of provider, and a plain one.
SwitchBatches == { <<OkCall>> } \cup { <<SwitchCall(p)>> : p \in ProviderNames }

\* Batches asking for a switch of agent.
AgentBatches == { <<AgentSwitchCall("support")>>, <<AgentSwitchCall("unknown")>> }

\* OpenAI answers with SDK objects (attributes id and function), Ollama with
\* the dicts of its JSON body.
Shape(provider_name) == IF provider_name = "openai" THEN "object" ELSE "dict"

\* The tool_calls list of a provider's ChatCompletionResult.
AsReturnedBy(provider_name, batch) ==
    [i \in DOMAIN batch |->
        [id |-> batch[i].id, name |-> batch[i].name,
         arguments |-> batch[i].arguments, effect |-> batch[i].effect,
         target |-> batch[i].target, shape |-> Shape(provider_name)]]

\* The batches a provider can answer with: an SDK object always has an id and
\* string arguments.
BatchesOf(provider_name) ==
    IF Shape(provider_name) = "object"
    THEN {b \in ToolBatches \cup SwitchBatches \cup AgentBatches :
            \A i \in 1..Len(b) : b[i].id # None /\ b[i].arguments # "parsed"}
    ELSE ToolBatches \cup SwitchBatches \cup AgentBatches

\* f"call_{n}"
CallN(n) == <<"call_0", "call_1", "call_2", "call_3">>[n + 1]

\* AgentManager.validate_agent
ValidateAgent(agent_id) == agent_id \in DOMAIN AgentsConfig.agents

\* AgentManagerTool._switch_agent: the _user_agents of the instance it runs on.
SwitchAgent(tool_agents, agent_id, user_id, channel_id) ==
    IF ValidateAgent(agent_id)
    THEN Put(tool_agents, UserAgentKey(user_id, channel_id), agent_id)
    ELSE tool_agents

\* ToolResult.model_dump() of what tool.execute returns
ToolResultDump(tc) ==
    CASE tc.effect = "agent_switch" /\ ValidateAgent(tc.target) ->
            [success |-> TRUE, data |-> "agent_switch", error |-> None,
             metadata |-> [tool_name |-> "AgentManager", agent_switch |-> "True",
                           new_agent_id |-> tc.target]]
      [] tc.effect = "agent_switch" /\ ~ValidateAgent(tc.target) ->
            [success |-> FALSE, data |-> None, error |-> "agent_not_found",
             metadata |-> [tool_name |-> "AgentManager"]]
      [] tc.effect = "success" ->
            [success |-> TRUE, data |-> "tool_data", error |-> None,
             metadata |-> [tool_name |-> tc.name]]
      [] tc.effect = "failure" ->
            [success |-> FALSE, data |-> None, error |-> "tool_failed",
             metadata |-> [tool_name |-> tc.name]]
      [] tc.effect = "provider_switch" ->
            [success |-> TRUE, data |-> "switch_requested", error |-> None,
             metadata |-> [tool_name |-> tc.name, provider_switch |-> "True",
                           new_provider |-> tc.target]]

\* The result _execute_tools records for a call it could not parse.
ParsingErrorResult == [success |-> FALSE, error |-> "Tool call parsing error"]

\* json.dumps(tool_result["result"]), kept as the payload that tells results apart
JsonDumps(result) == IF result.success THEN result.data ELSE result.error

\* json.loads(arguments) succeeds
ArgumentsParse(tc) == tc.arguments = "json"

\* Reading name, arguments and id off the call raises: json.loads fails, or
\* the default branch calls .get on an object.
ParseRaises(tc, provider_name) ==
    \/ ~ArgumentsParse(tc)
    \/ provider_name \notin {"openai", "ollama"} /\ tc.shape = "object"

\* tool_call_id of a parsed call: the object's id attribute, or
\* tool_call.get("id", f"call_{len(results)}")
ParsedCallId(tc, results) ==
    IF tc.shape = "object" THEN tc.id
    ELSE IF tc.id # None THEN tc.id ELSE CallN(Len(results))

\* tool_call_id of the parsing-error result: getattr(tool_call, 'id', ...) if
\* hasattr(tool_call, 'id') else f"call_{len(results)}"; a dict has no such
\* attribute.
ParsingErrorCallId(tc, results) ==
    IF tc.shape = "object" THEN tc.id ELSE CallN(Len(results))

\* An iteration that gives up what the batch yielded so far when it cannot
\* parse its call.
ExecuteToolCallAborting(tc, provider_name, results) ==
    IF ParseRaises(tc, provider_name)
    THEN <<>>
    ELSE IF tc.name \in RegisteredTools /\ tc.effect # "raises"
         THEN Append(results, [tool_call_id |-> ParsedCallId(tc, results),
                               tool_name |-> tc.name,
                               result |-> ToolResultDump(tc)])
         ELSE results

\* An iteration that puts its result in front of the earlier ones.
ExecuteToolCallPrepending(tc, provider_name, results) ==
    IF ParseRaises(tc, provider_name)
    THEN <<[tool_call_id |-> ParsingErrorCallId(tc, results),
            tool_name |-> "unknown",
            result |-> ParsingErrorResult]>> \o results
    ELSE IF tc.name \in RegisteredTools /\ tc.effect # "raises"
         THEN <<[tool_call_id |-> ParsedCallId(tc, results),
                 tool_name |-> tc.name,
                 result |-> ToolResultDump(tc)]>> \o results
         ELSE results

\* One iteration of the loop of _execute_tools: the results list afterwards.
ExecuteToolCall(tc, provider_name, results) ==
    IF ParseRaises(tc, provider_name)
    THEN Append(results, [tool_call_id |-> ParsingErrorCallId(tc, results),
                          tool_name |-> "unknown",
                          result |-> ParsingErrorResult])
    ELSE IF tc.name \in RegisteredTools
         THEN IF tc.effect = "raises"
              THEN results
              ELSE Append(results, [tool_call_id |-> ParsedCallId(tc, results),
                                    tool_name |-> tc.name,
                                    result |-> ToolResultDump(tc)])
         ELSE results

RECURSIVE ExecuteToolsFrom(_, _, _)
ExecuteToolsFrom(tool_calls, provider_name, results) ==
    IF tool_calls = <<>> THEN results
    ELSE ExecuteToolsFrom(Tail(tool_calls), provider_name,
                          ExecuteToolCall(Head(tool_calls), provider_name, results))

\* ChatProcessor._execute_tools
ExecuteTools(tool_calls, provider_name) ==
    ExecuteToolsFrom(tool_calls, provider_name, <<>>)

\* Reading name, arguments and id off the call raises in a provider's
\* execute_tool_calls: json.loads fails, or OpenAIProvider reads
\* tool_call.function off a dict.
ProviderParseRaises(tc, provider_name) ==
    \/ ~ArgumentsParse(tc)
    \/ provider_name = "openai" /\ tc.shape = "dict"

\* One iteration of the loop of OpenAIProvider.execute_tool_calls and of
\* OllamaProvider.execute_tool_calls: a call that cannot be read, names no
\* registered tool or whose tool raises is skipped.
ProviderExecuteToolCall(tc, provider_name, results) ==
    IF ProviderParseRaises(tc, provider_name)
    THEN results
    ELSE IF tc.name \in RegisteredTools /\ tc.effect # "raises"
         THEN Append(results, [tool_call_id |-> ParsedCallId(tc, results),
                               tool_name |-> tc.name,
                               result |-> ToolResultDump(tc)])
         ELSE results

RECURSIVE ProviderExecuteToolCallsFrom(_, _, _)
ProviderExecuteToolCallsFrom(tool_calls, provider_name, results) ==
    IF tool_calls = <<>> THEN results
    ELSE ProviderExecuteToolCallsFrom(
             Tail(tool_calls), provider_name,
             ProviderExecuteToolCall(Head(tool_calls), provider_name, results))

\* execute_tool_calls of the provider called provider_name
ProviderExecuteToolCalls(tool_calls, provider_name) ==
    ProviderExecuteToolCallsFrom(tool_calls, provider_name, <<>>)

\* What running the calls of a batch does to the AgentManagerTool of the
\* registry: its switch action stores the preference on that instance.
RECURSIVE ExecuteSwitches(_, _, _, _, _)
ExecuteSwitches(tool_agents, tool_calls, provider_name, user_id, channel_id) ==
    IF tool_calls = <<>> THEN tool_agents
    ELSE LET tc == Head(tool_calls)
             after == IF /\ ~ParseRaises(tc, provider_name)
                         /\ tc.name \in RegisteredTools
                         /\ tc.effect = "agent_switch"
                      THEN SwitchAgent(tool_agents, tc.target, user_id, channel_id)
                      ELSE tool_agents
         IN  ExecuteSwitches(after, Tail(tool_calls), provider_name,
                             user_id, channel_id)

\* ------------------------------------------------ process_message, helpers

\* ChatProcessor._prepare_messages
PrepareMessages(agents, message, conversation_history, user_id, channel_id) ==
    LET system_message == GetUserSystemPrompt(agents, user_id, channel_id)
    IN  (IF system_message # ""
         THEN <<[role |-> "system", content |-> <<system_message>>]>>
         ELSE <<>>)
        \o LastN(conversation_history, max_messages_per_conversation)
        \o <<[role |-> "user", content |-> <<message>>]>>

\* The tools argument of the first chat_completion: the schemas of the agent's
\* tools that are registered, <<>> standing for None.
AttachedTools(agents, user_id, channel_id, use_tools) ==
    IF use_tools
    THEN SelectSeq(GetUserTools(agents, user_id, channel_id),
                   LAMBDA name : name \in RegisteredTools)
    ELSE <<>>

\* A rewrite that looks at the first message only.
CallerMessagesHeadOnly(provider_name, messages) ==
    IF provider_name = "ollama"
    THEN [i \in DOMAIN messages |->
            IF i = 1 /\ messages[i].role = "system"
            THEN [messages[i] EXCEPT !.role = "assistant"]
            ELSE messages[i]]
    ELSE messages

\* OllamaProvider.chat_completion rewrites the role of the caller's message
\* objects before it builds the request; OpenAIProvider sends the list as it is.
CallerMessagesAfterCall(provider_name, messages) ==
    IF provider_name = "ollama"
    THEN [i \in DOMAIN messages |->
            IF messages[i].role = "system"
            THEN [messages[i] EXCEPT !.role = "assistant"]
            ELSE messages[i]]
    ELSE messages

\* request_data["messages"] (Ollama) and the messages argument of
\* chat.completions.create (OpenAI): the caller's list itself, after the
\* rewrite.
RequestMessages(provider_name, messages) ==
    CallerMessagesAfterCall(provider_name, messages)

\* Python truthiness of the values a metadata dict holds here.
Truthy(x) == x \notin {None, "", "False"}

\* tool_result.get("metadata", {}) on an entry of the list _execute_tools returns
ToolResultMetadata(tool_result) == Get(tool_result, "metadata", EmptyDict)

\* The provider_switch branch of the loop over tool_results: current_provider
\* after one tool result.
ApplyProviderSwitch(cfg, current, tool_result) ==
    LET metadata == ToolResultMetadata(tool_result)
        new_provider == Get(metadata, "new_provider", None)
    IN  IF /\ Truthy(Get(metadata, "provider_switch", None))
           /\ Truthy(new_provider)
           /\ new_provider \in DiscoverProviders(cfg)
           /\ IsAvailable(cfg, new_provider)
        THEN new_provider
        ELSE current

RECURSIVE ApplyProviderSwitches(_, _, _)
ApplyProviderSwitches(cfg, current, tool_results) ==
    IF tool_results = <<>> THEN current
    ELSE ApplyProviderSwitches(cfg,
                               ApplyProviderSwitch(cfg, current, Head(tool_results)),
                               Tail(tool_results))

\* The agent_switch branch: _update_conversation_agent sets the preference.
ApplyAgentSwitch(agents, user_id, channel_id, tool_result) ==
    LET metadata == ToolResultMetadata(tool_result)
        new_agent_id == Get(metadata, "new_agent_id", None)
    IN  IF Truthy(Get(metadata, "agent_switch", None)) /\ Truthy(new_agent_id)
        THEN Put(agents, UserAgentKey(user_id, channel_id), new_agent_id)
        ELSE agents

RECURSIVE ApplyAgentSwitches(_, _, _, _)
ApplyAgentSwitches(agents, user_id, channel_id, tool_results) ==
    IF tool_results = <<>> THEN agents
    ELSE ApplyAgentSwitches(
             ApplyAgentSwitch(agents, user_id, channel_id, Head(tool_results)),
             user_id, channel_id, Tail(tool_results))

\* The loop calling add_tool_result for every entry of tool_results.
RECURSIVE AddToolResults(_, _, _, _, _)
AddToolResults(convs, user_id, channel_id, tool_results, origin) ==
    IF tool_results = <<>> THEN convs
    ELSE AddToolResults(
             AddToolResult(convs, user_id, channel_id, Head(tool_results).tool_name,
                           JsonDumps(Head(tool_results).result), origin),
             user_id, channel_id, Tail(tool_results), origin)

\* Building the assistant message that lists the tool calls reads
\* tool_call.function.name, an attribute a dict does not have.
AssistantMessageRaises(tool_calls) ==
    \E i \in DOMAIN tool_calls : tool_calls[i].shape = "dict"

AssistantToolCallsMessage(content, tool_calls) ==
    [role |-> "assistant", content |-> <<content>>,
     tool_calls |-> [i \in DOMAIN tool_calls |->
                        [id |-> tool_calls[i].id, name |-> tool_calls[i].name]]]

ToolMessages(tool_results) ==
    [i \in DOMAIN tool_results |->
        [role |-> "tool", tool_call_id |-> tool_results[i].tool_call_id,
         content |-> <<JsonDumps(tool_results[i].result)>>]]

\* error_response = f"Sorry, I encountered an error: {str(e)}"
ErrorResponse(e) == <<"Sorry, I encountered an error: ", e>>

NoProvidersResponse ==
    <<"Sorry, no AI providers are currently available. Please check the configuration.">>

\* -------------------------------------------------------------------- state

VARIABLES
    conversations,         \* ConversationManager.conversations
    channel_providers,     \* ProviderManager._channel_providers
    bot_current_provider,  \* current_provider of the SlackBot's ChatProcessor
    user_agents,           \* _user_agents of the AgentManagerTool that
                           \* get_agent_manager_tool() returns
    registry_user_agents,  \* _user_agents of the AgentManagerTool that
                           \* tool_registry.get_tool returns
    turn,                  \* the process_message calls, one record each
    direct_calls,          \* how many direct calls were made
    last,                  \* the last direct call: its argument `arg`, what it
                           \* returned, and the current provider it `shown`
    redis,                 \* the backing store's availability to this process
    redis_store,           \* the records the backing store holds, by key
    tasks,                 \* the persistence tasks created and not yet ended
    agents_file,           \* what agents.json holds
    agents_config,         \* agents_config of the AgentManager that
                           \* app.core.utils.agent_manager.get_agent_manager
                           \* returns
    updated_order,         \* the keys of ConversationManager.conversations by
                           \* the updated_at of their conversations, oldest
                           \* first
    slack                  \* the Slack event the webhook was given: where its
                           \* handler stands, the calls of send_message it
                           \* made, and what the webhook answered

vars == <<settings, conversations, channel_providers, bot_current_provider,
          user_agents, registry_user_agents, turn, direct_calls, last,
          redis, redis_store, tasks, agents_file, agents_config,
          updated_order, slack>>

\* How a turn reaches process_message: the Slack bot keeps one ChatProcessor,
\* POST /api/ai/chat builds a new one per request (get_chat_processor).
Entry == [t1 |-> "slack", t2 |-> "http"]

NoResult == [response |-> <<>>, provider |-> None, error |-> None]

IdleTurn ==
    [pc |-> "idle", user_id |-> None, channel_id |-> None, message |-> None,
     own_provider |-> None, provider |-> None, routed |-> None,
     tools |-> <<>>, messages |-> <<>>, completions |-> 0,
     tool_calls |-> <<>>, tool_results |-> <<>>, final_tool_calls |-> <<>>,
     cleared |-> FALSE, result |-> NoResult]

NoCall == [arg |-> None, shown |-> None, op |-> None, channel_id |-> None,
           ret |-> None]

\* An event without any of the keys the handler reads.
NoEvent == [bot_id |-> None, text |-> None, channel |-> None, user |-> None,
            ts |-> None]

\* No event has reached the webhook.
NoSlackEvent ==
    [pc |-> "idle", event |-> NoEvent, calls |-> <<>>, raised |-> FALSE,
     ack |-> None]

\* The state after construction, the environment being one of `configs`, the
\* backing store in one of `states` and holding one of `records`, and
\* agents.json holding one of `files`.
Constructed(configs, states, records, files) ==
    /\ agents_file \in files
    /\ agents_config = LoadAgentsConfig(agents_file)
    /\ redis \in states
    /\ redis_store \in records
    /\ tasks = <<>>
    /\ settings \in configs
    /\ conversations = EmptyDict
    /\ updated_order = <<>>
    /\ slack = NoSlackEvent
    /\ channel_providers = EmptyDict
    /\ bot_current_provider \in InitCurrentProvider(settings)
    /\ user_agents = EmptyDict
    /\ registry_user_agents = EmptyDict
    /\ turn = [t \in Turns |-> IdleTurn]
    /\ direct_calls = 0
    /\ last = NoCall

\* redis_host is not set: conversations live in memory only.
Init == Constructed(Configs, {"unset"}, {EmptyDict}, {"general_default"})

\* The record a previous run of the process left for channel c1.
LeftBehind ==
    Put(EmptyDict, GetKey("shared", "c1"),
        [user_id |-> "shared", channel_id |-> "c1",
         messages |-> <<[role |-> "user", content |-> UserTaggedContent("u1", "Hi")]>>])

\* The same environments with the roomier limit.
RoomyConfigs ==
    { [cfg EXCEPT !.max_messages_per_conversation = RoomyMaxMessages] :
        cfg \in Configs }

RoomyInit == Constructed(RoomyConfigs, {"unset"}, {EmptyDict}, {"general_default"})

\* Both providers are configured and available, whichever is the default.
FrameInit ==
    Constructed({cfg \in Configs : /\ IsAvailable(cfg, "openai")
                                   /\ IsAvailable(cfg, "ollama")},
                {"unset"}, {EmptyDict}, {"general_default"})

\* redis_host is set: the store is empty or holds what a previous run left.
\* Both providers are configured and available.
PersistInit ==
    Constructed({cfg \in Configs : /\ cfg.ai_provider = "openai"
                                   /\ IsAvailable(cfg, "openai")
                                   /\ IsAvailable(cfg, "ollama")},
                {"up", "failing", "None"}, {EmptyDict, LeftBehind},
                {"general_default"})

\* agents.json holds anything it can hold when the process starts.
AgentConfigInit == Constructed(Configs, {"unset"}, {EmptyDict}, AgentsFiles)

\* self.current_provider of the ChatProcessor that runs turn t
CurrentProviderOf(t) ==
    IF Entry[t] = "slack" THEN bot_current_provider ELSE turn[t].own_provider

InFlight(t) == turn[t].pc \in {"dispatch", "redispatch"}

\* The text every turn sends, and the contents the provider answers with.
MessageText == "Hi"
FirstContent == "Hello!"
SecondContent == "Done."

\* The tool calls the second answer of a turn may carry.
SecondBatches == {<<>>, <<OkCall>>}

\* Who sends each turn: a Slack message of u1 in c1, an HTTP request of any
\* user for any channel. The bot always offers tools, the request chooses.
TurnUsers == [t1 |-> {"u1"}, t2 |-> Users]
TurnChannels == [t1 |-> {"c1"}, t2 |-> Channels]
TurnUseTools == [t1 |-> {TRUE}, t2 |-> BOOLEAN]

\* The names callers pass to set_provider_for_channel.
RequestedProviders == {"openai", "OLLAMA", "gemini"}

\* ------------------------------------------------------------ process_message

\* The key of turn t's conversation, read off the turn record r.
KeyOf(r) == ConversationKey(r.user_id, r.channel_id)

\* The bound on the tasks that wait while a handler is run.
HandlerMayRun == Len(tasks) <= MaxPendingTasks

\* A call of the store raised inside the handler: the exception leaves
\* process_message and the turn has no result.
TurnAfter(sync, r) ==
    IF sync.raised
    THEN [r EXCEPT !.pc = "done",
                   !.result = [response |-> <<>>, provider |-> None,
                               error |-> "raised"]]
    ELSE r

\* The except branch of process_message: the error text is stored as an
\* assistant message and returned with the error.
ExceptPath(t, reached, convs, sync, current, e) ==
    LET saved == SaveEach(redis, sync, IF Has(convs, KeyOf(turn[t])) THEN 1 ELSE 0)
    IN  /\ conversations' =
               AddAiResponse(convs, turn[t].user_id, turn[t].channel_id,
                             ErrorResponse(e), t)
        /\ tasks' = saved.tasks
        /\ turn' = [turn EXCEPT ![t] =
               TurnAfter(saved,
                   [reached EXCEPT !.pc = "done",
                             !.result = [response |-> ErrorResponse(e),
                                         provider |-> current,
                                         error |-> e]])]

\* An end of the turn that first runs the tool calls of the final answer.
FinishTurnRunsTools(t, content, tool_calls) ==
    LET tool_results == ExecuteTools(tool_calls, CurrentProviderOf(t))
        convs == AddToolResults(conversations, turn[t].user_id,
                                turn[t].channel_id, tool_results, t)
        saved == SaveEach(redis, Scheduled(tasks),
                          IF Has(conversations, KeyOf(turn[t]))
                          THEN Len(tool_results) + 1 ELSE 0)
    IN  /\ conversations' =
               AddAiResponse(convs, turn[t].user_id, turn[t].channel_id,
                             <<content>>, t)
        /\ tasks' = saved.tasks
        /\ turn' = [turn EXCEPT ![t] =
               TurnAfter(saved,
                   [@ EXCEPT !.pc = "done",
                             !.final_tool_calls = tool_calls,
                             !.result = [response |-> <<content>>,
                                         provider |-> CurrentProviderOf(t),
                                         error |-> None]])]

\* The end of the try block: the final content is stored and returned.
FinishTurn(t, content, tool_calls) ==
    LET saved == SaveEach(redis, Scheduled(tasks),
                          IF Has(conversations, KeyOf(turn[t])) THEN 1 ELSE 0)
    IN  /\ conversations' =
               AddAiResponse(conversations, turn[t].user_id, turn[t].channel_id,
                             <<content>>, t)
        /\ tasks' = saved.tasks
        /\ turn' = [turn EXCEPT ![t] =
               TurnAfter(saved,
                   [@ EXCEPT !.pc = "done",
                             !.final_tool_calls = tool_calls,
                             !.result = [response |-> <<content>>,
                                         provider |-> CurrentProviderOf(t),
                                         error |-> None]])]

\* process_message up to the first await: the guard on the provider, then
\* add_user_message, get_conversation_context, _prepare_messages, the tool
\* schemas, and the call of chat_completion.
ProcessMessageStart(t, user_id, channel_id, use_tools) ==
    /\ HandlerMayRun
    /\ turn[t].pc = "idle"
    /\ user_id \in TurnUsers[t]
    /\ channel_id \in TurnChannels[t]
    /\ use_tools \in TurnUseTools[t]
    /\ \E current \in (IF Entry[t] = "slack" THEN {bot_current_provider}
                       ELSE InitCurrentProvider(settings)) :
        IF NoProviderObject(settings, current)
        THEN /\ turn' = [turn EXCEPT ![t] =
                    [@ EXCEPT !.pc = "done", !.user_id = user_id,
                              !.channel_id = channel_id,
                              !.message = MessageText,
                              !.own_provider = current,
                              !.routed = GetChannelProviderName(
                                  settings, channel_providers, channel_id),
                              !.result = [response |-> NoProvidersResponse,
                                          provider |-> "none",
                                          error |-> "No providers available"]]]
             /\ UNCHANGED <<conversations, tasks, updated_order>>
        ELSE LET saved == SaveConversationsSync(redis, Scheduled(tasks))
                 convs == AddUserMessage(conversations, user_id, channel_id,
                                         MessageText, current, t)
                 history == GetConversationContext(convs, user_id, channel_id, <<>>)
                 messages == PrepareMessages(user_agents, MessageText, history,
                                             user_id, channel_id)
             IN  /\ conversations' = convs
                 /\ updated_order' = Touch(updated_order, convs,
                                           ConversationKey(user_id, channel_id),
                                           TRUE)
                 /\ tasks' = saved.tasks
                 /\ turn' = [turn EXCEPT ![t] = TurnAfter(saved,
                        [@ EXCEPT !.pc = "dispatch", !.user_id = user_id,
                                  !.channel_id = channel_id,
                                  !.message = MessageText,
                                  !.own_provider = current,
                                  !.provider = current,
                                  !.routed = GetChannelProviderName(
                                      settings, channel_providers, channel_id),
                                  !.tools = AttachedTools(user_agents, user_id,
                                                          channel_id, use_tools),
                                  !.messages = CallerMessagesAfterCall(current, messages),
                                  !.completions = 1])]
    /\ UNCHANGED <<settings, channel_providers, bot_current_provider,
                   user_agents, registry_user_agents, direct_calls, last,
                   redis, redis_store, agents_file, agents_config>>

\* process_message called by a caller that is not the Slack handler.
StartTurn(t, user_id, channel_id, use_tools) ==
    /\ ProcessMessageStart(t, user_id, channel_id, use_tools)
    /\ UNCHANGED slack

\* chat_completion raises (no key, no server, an HTTP error, a timeout): the
\* first call or the second one.
ChatCompletionRaises(t) ==
    /\ HandlerMayRun
    /\ InFlight(t)
    /\ ExceptPath(t, turn[t], conversations, Scheduled(tasks),
                  CurrentProviderOf(t), "provider_error")
    /\ updated_order' = Touch(updated_order, conversations',
                              KeyOf(turn[t]), TRUE)
    /\ UNCHANGED <<settings, channel_providers, bot_current_provider,
                   user_agents, registry_user_agents, direct_calls, last,
                   redis, redis_store, agents_file, agents_config, slack>>

\* The first chat_completion returns content and no tool calls.
ChatCompletionReturns(t) ==
    /\ HandlerMayRun
    /\ turn[t].pc = "dispatch"
    /\ IsAvailable(settings, turn[t].provider)
    /\ FinishTurn(t, FirstContent, <<>>)
    /\ updated_order' = Touch(updated_order, conversations',
                              KeyOf(turn[t]), TRUE)
    /\ UNCHANGED <<settings, channel_providers, bot_current_provider,
                   user_agents, registry_user_agents, direct_calls, last,
                   redis, redis_store, agents_file, agents_config, slack>>

\* The first chat_completion returns tool calls: _execute_tools, the loop over
\* the results (directives, add_tool_result), the assistant and tool messages,
\* and the second call of chat_completion. OpenAI answers with tool calls only
\* to a request that offered tools; OllamaProvider also takes them out of the
\* text of the answer, whatever the request offered.
ChatCompletionReturnsToolCalls(t, batch) ==
    /\ HandlerMayRun
    /\ turn[t].pc = "dispatch"
    /\ IsAvailable(settings, turn[t].provider)
    /\ turn[t].tools # <<>> \/ turn[t].provider = "ollama"
    /\ batch \in BatchesOf(turn[t].provider)
    /\ LET tool_calls == AsReturnedBy(turn[t].provider, batch)
           tool_results == ExecuteTools(tool_calls, CurrentProviderOf(t))
           current == ApplyProviderSwitches(settings, CurrentProviderOf(t),
                                            tool_results)
           convs == AddToolResults(conversations, turn[t].user_id,
                                   turn[t].channel_id, tool_results, t)
           messages == turn[t].messages
                       \o <<AssistantToolCallsMessage(FirstContent, tool_calls)>>
                       \o ToolMessages(tool_results)
           saved == SaveEach(redis, Scheduled(tasks),
                             IF Has(conversations, KeyOf(turn[t]))
                             THEN Len(tool_results) ELSE 0)
           reached == [turn[t] EXCEPT !.own_provider = current,
                                      !.tool_calls = tool_calls,
                                      !.tool_results = tool_results]
       IN  /\ user_agents' = ApplyAgentSwitches(user_agents, turn[t].user_id,
                                                turn[t].channel_id, tool_results)
           /\ registry_user_agents' =
                  ExecuteSwitches(registry_user_agents, tool_calls,
                                  CurrentProviderOf(t), turn[t].user_id,
                                  turn[t].channel_id)
           /\ IF Entry[t] = "slack"
              THEN bot_current_provider' = current
              ELSE UNCHANGED bot_current_provider
           /\ IF AssistantMessageRaises(tool_calls)
              THEN ExceptPath(t, reached, convs, saved, current, "attribute_error")
              ELSE /\ conversations' = convs
                   /\ tasks' = saved.tasks
                   /\ turn' = [turn EXCEPT ![t] = TurnAfter(saved,
                          [reached EXCEPT !.pc = "redispatch",
                                          !.messages = CallerMessagesAfterCall(
                                              turn[t].provider, messages),
                                          !.completions = 2])]
    /\ updated_order' = Touch(updated_order, conversations',
                              KeyOf(turn[t]), TRUE)
    /\ UNCHANGED <<settings, channel_providers, direct_calls, last,
                   redis, redis_store, agents_file, agents_config, slack>>

\* The second chat_completion returns: its content is the final response,
\* whatever tool calls it carries.
SecondCompletionReturns(t, batch) ==
    /\ HandlerMayRun
    /\ turn[t].pc = "redispatch"
    /\ IsAvailable(settings, turn[t].provider)
    /\ FinishTurn(t, SecondContent, AsReturnedBy(turn[t].provider, batch))
    /\ updated_order' = Touch(updated_order, conversations',
                              KeyOf(turn[t]), TRUE)
    /\ UNCHANGED <<settings, channel_providers, bot_current_provider,
                   user_agents, registry_user_agents, direct_calls, last,
                   redis, redis_store, agents_file, agents_config, slack>>

\* ------------------------------------------------ calls from outside a turn

\* What the caller of a store method gets: its return value, or the exception.
CallReturn(sync, ret) == IF sync.raised THEN "raised" ELSE ret

\* conversation_manager.add_user_message called on its own
CallAddUserMessage(user_id, channel_id) ==
    /\ HandlerMayRun
    /\ direct_calls < MaxDirectCalls
    /\ direct_calls' = direct_calls + 1
    /\ conversations' = AddUserMessage(conversations, user_id, channel_id,
                                       MessageText, DefaultProviderName(settings),
                                       "direct")
    /\ LET saved == SaveConversationsSync(redis, Scheduled(tasks))
       IN  /\ tasks' = saved.tasks
           /\ last' = [arg |-> None, shown |-> None, op |-> "add_user_message", channel_id |-> channel_id,
                       ret |-> CallReturn(saved, "conversation")]
    /\ updated_order' = Touch(updated_order, conversations',
                              ConversationKey(user_id, channel_id), TRUE)
    /\ UNCHANGED <<settings, channel_providers, bot_current_provider,
                   user_agents, registry_user_agents, turn, redis, redis_store,
                   agents_file, agents_config, slack>>

\* conversation_manager.add_ai_response called on its own
CallAddAiResponse(user_id, channel_id) ==
    /\ HandlerMayRun
    /\ direct_calls < MaxDirectCalls
    /\ direct_calls' = direct_calls + 1
    /\ conversations' = AddAiResponse(conversations, user_id, channel_id,
                                      <<"note">>, "direct")
    /\ LET saved == SaveEach(redis, Scheduled(tasks),
                             IF Has(conversations, ConversationKey(user_id, channel_id))
                             THEN 1 ELSE 0)
       IN  /\ tasks' = saved.tasks
           /\ last' = [arg |-> None, shown |-> None, op |-> "add_ai_response", channel_id |-> channel_id,
                       ret |-> CallReturn(saved,
                                   StoreReturn(conversations, user_id, channel_id))]
    /\ updated_order' = Touch(updated_order, conversations',
                              ConversationKey(user_id, channel_id), TRUE)
    /\ UNCHANGED <<settings, channel_providers, bot_current_provider,
                   user_agents, registry_user_agents, turn, redis, redis_store,
                   agents_file, agents_config, slack>>

\* conversation_manager.add_tool_result called on its own
CallAddToolResult(user_id, channel_id) ==
    /\ HandlerMayRun
    /\ direct_calls < MaxDirectCalls
    /\ direct_calls' = direct_calls + 1
    /\ conversations' = AddToolResult(conversations, user_id, channel_id,
                                      "WeatherTool", "tool_data", "direct")
    /\ LET saved == SaveEach(redis, Scheduled(tasks),
                             IF Has(conversations, ConversationKey(user_id, channel_id))
                             THEN 1 ELSE 0)
       IN  /\ tasks' = saved.tasks
           /\ last' = [arg |-> None, shown |-> None, op |-> "add_tool_result", channel_id |-> channel_id,
                       ret |-> CallReturn(saved,
                                   StoreReturn(conversations, user_id, channel_id))]
    /\ updated_order' = Touch(updated_order, conversations',
                              ConversationKey(user_id, channel_id), TRUE)
    /\ UNCHANGED <<settings, channel_providers, bot_current_provider,
                   user_agents, registry_user_agents, turn, redis, redis_store,
                   agents_file, agents_config, slack>>

\* conversation_manager.clear_conversation: the /clear command and
\* ConversationManagerTool. Turns in flight on the channel are marked.
CallClearConversation(user_id, channel_id) ==
    /\ HandlerMayRun
    /\ direct_calls < MaxDirectCalls
    /\ direct_calls' = direct_calls + 1
    /\ conversations' = ClearConversationStore(conversations, user_id, channel_id)
    /\ LET saved == IF Has(conversations, ConversationKey(user_id, channel_id))
                    THEN SaveConversationsSync(redis,
                             ScheduleDelete(redis, Scheduled(tasks), channel_id))
                    ELSE Scheduled(tasks)
       IN  /\ tasks' = saved.tasks
           /\ last' = [arg |-> None, shown |-> None, op |-> "clear_conversation", channel_id |-> channel_id,
                       ret |-> CallReturn(saved,
                                   IF ClearConversationReturn(conversations, user_id,
                                                              channel_id)
                                   THEN "True" ELSE "False")]
    /\ turn' = [t \in Turns |->
                   IF InFlight(t) /\ turn[t].channel_id = channel_id
                   THEN [turn[t] EXCEPT !.cleared = TRUE]
                   ELSE turn[t]]
    /\ updated_order' = Touch(updated_order, conversations',
                              ConversationKey(user_id, channel_id), FALSE)
    /\ UNCHANGED <<settings, channel_providers, bot_current_provider,
                   user_agents, registry_user_agents, redis, redis_store,
                   agents_file, agents_config, slack>>

\* conversation_manager.get_conversation_context called on its own, without
\* max_messages: it builds a new list and writes nothing.
CallGetConversationContext(user_id, channel_id) ==
    /\ direct_calls < MaxDirectCalls
    /\ direct_calls' = direct_calls + 1
    /\ last' = [arg |-> None, shown |-> None, op |-> "get_conversation_context",
                channel_id |-> channel_id,
                ret |-> GetConversationContext(conversations, user_id,
                                               channel_id, <<>>)]
    /\ UNCHANGED <<settings, conversations, channel_providers,
                   bot_current_provider, user_agents, registry_user_agents,
                   turn, redis, redis_store, tasks, agents_file, agents_config,
                   updated_order, slack>>

\* The caps cleanup_conversations is given: none, or a number.
CleanupCaps == {<<>>, <<0>>, <<1>>, <<2>>}

\* conversation_manager.cleanup_conversations: the "cleanup" action of
\* ConversationManagerTool.
CallCleanupConversations(max_conversations) ==
    /\ HandlerMayRun
    /\ direct_calls < MaxDirectCalls
    /\ direct_calls' = direct_calls + 1
    /\ LET cleaned == CleanupConversations(conversations, updated_order,
                                           max_conversations)
           saved == IF cleaned.removed_keys # <<>>
                    THEN SaveConversationsSync(redis, Scheduled(tasks))
                    ELSE Scheduled(tasks)
       IN  /\ conversations' = cleaned.conversations
           /\ updated_order' = Touch(updated_order, cleaned.conversations,
                                     None, FALSE)
           /\ tasks' = saved.tasks
           /\ last' = [arg |-> max_conversations, shown |-> None,
                       op |-> "cleanup_conversations", channel_id |-> None,
                       ret |-> cleaned.ret]
    /\ UNCHANGED <<settings, channel_providers, bot_current_provider,
                   user_agents, registry_user_agents, turn, redis, redis_store,
                   agents_file, agents_config, slack>>

\* provider_manager.set_provider_for_channel: POST /api/ai/provider/switch and
\* the /provider command.
CallSetProviderForChannel(channel_id, provider_name) ==
    /\ ManagerUp(settings)
    /\ channel_providers' = SetProviderForChannel(settings, channel_providers,
                                                  channel_id, provider_name)
    /\ UNCHANGED <<settings, conversations, bot_current_provider, user_agents,
                   registry_user_agents,
                   turn, direct_calls, last, redis, redis_store, tasks,
                   agents_file, agents_config, updated_order, slack>>

\* provider_manager.clear_channel_provider: POST /api/ai/provider/reset
CallClearChannelProvider(channel_id) ==
    /\ ManagerUp(settings)
    /\ channel_providers' = ClearChannelProvider(channel_providers, channel_id)
    /\ UNCHANGED <<settings, conversations, bot_current_provider, user_agents,
                   registry_user_agents,
                   turn, direct_calls, last, redis, redis_store, tasks,
                   agents_file, agents_config, updated_order, slack>>

\* POST /api/ai/provider/switch without a model: the response carries the
\* success of set_provider_for_channel and the channel's provider afterwards.
SwitchProvider(channel_id, provider) ==
    /\ ManagerUp(settings)
    /\ channel_providers' = SetProviderForChannel(settings, channel_providers,
                                                  channel_id, provider)
    /\ last' = [op |-> "switch_provider", channel_id |-> channel_id,
                arg |-> provider,
                ret |-> IF SetProviderReturn(settings, provider)
                        THEN "True" ELSE "False",
                shown |-> GetChannelProviderName(settings, channel_providers',
                                                 channel_id)]
    /\ UNCHANGED <<settings, conversations, bot_current_provider, user_agents,
                   registry_user_agents, turn, direct_calls,
                   redis, redis_store, tasks, agents_file, agents_config,
                   updated_order, slack>>

\* DELETE /api/ai/provider/reset/{channel_id}
ResetProvider(channel_id) ==
    /\ ManagerUp(settings)
    /\ channel_providers' = ClearChannelProvider(channel_providers, channel_id)
    /\ last' = [op |-> "reset_provider", channel_id |-> channel_id,
                arg |-> None, ret |-> "True",
                shown |-> GetChannelProviderName(settings, channel_providers',
                                                 channel_id)]
    /\ UNCHANGED <<settings, conversations, bot_current_provider, user_agents,
                   registry_user_agents, turn, direct_calls,
                   redis, redis_store, tasks, agents_file, agents_config,
                   updated_order, slack>>

\* The roles Conversation.add_message is given by a caller holding the object.
MessageRoles == {"system", "user", "assistant", "tool"}

\* Conversation.add_message called on the conversation of a channel.
CallConversationAddMessage(channel_id, role) ==
    LET key == ConversationKey("shared", channel_id)
    IN  /\ direct_calls < MaxDirectCalls
        /\ Has(conversations, key)
        /\ direct_calls' = direct_calls + 1
        /\ conversations' =
               Put(conversations, key,
                   AddMessage(conversations[key], role, <<"note">>, None, "direct"))
        /\ last' = [arg |-> None, shown |-> None, op |-> "add_message", channel_id |-> channel_id, ret |-> None]
        /\ updated_order' = Touch(updated_order, conversations',
                                  key, TRUE)
        /\ UNCHANGED <<settings, channel_providers, bot_current_provider,
                       user_agents, registry_user_agents, turn,
                       redis, redis_store, tasks, agents_file, agents_config,
                       slack>>

\* The agent ids the /agent command is given.
RequestedAgents == {"support", "unknown"}

\* The /agent command: tool_registry.get_tool('AgentManagerTool').execute with
\* action "switch".
CallSwitchAgent(user_id, channel_id, agent_id) ==
    /\ registry_user_agents' =
           SwitchAgent(registry_user_agents, agent_id, user_id, channel_id)
    /\ UNCHANGED <<settings, conversations, channel_providers,
                   bot_current_provider, user_agents, turn, direct_calls, last,
                   redis, redis_store, tasks, agents_file, agents_config,
                   updated_order, slack>>

\* The batches the tool loops are given on their own: those of the turns, and
\* batches whose unparseable call sits between calls that can be run.
ExecutionBatches ==
    ToolBatches \cup { <<OkCall, MalformedCall, DocsCall>>,
                       <<OkCall, NativeOllamaCall, FailingCall>>,
                       <<OkCall>> }

ExecutionBatchesOf(provider_name) ==
    IF Shape(provider_name) = "object"
    THEN {b \in ExecutionBatches :
            \A i \in 1..Len(b) : b[i].id # None /\ b[i].arguments # "parsed"}
    ELSE ExecutionBatches

\* ChatProcessor._execute_tools called on its own, with the tool calls as
\* the provider returns them.
CallExecuteTools(provider_name, batch) ==
    /\ direct_calls < MaxDirectCalls
    /\ batch \in ExecutionBatchesOf(provider_name)
    /\ direct_calls' = direct_calls + 1
    /\ LET tool_calls == AsReturnedBy(provider_name, batch)
       IN  last' = [arg |-> tool_calls, shown |-> provider_name,
                    op |-> "_execute_tools", channel_id |-> None,
                    ret |-> ExecuteTools(tool_calls, provider_name)]
    /\ UNCHANGED <<settings, conversations, channel_providers,
                   bot_current_provider, user_agents, registry_user_agents,
                   turn, redis, redis_store, tasks, agents_file,
                   agents_config, updated_order, slack>>

\* provider.execute_tool_calls of the provider called provider_name
CallExecuteToolCalls(provider_name, batch) ==
    /\ direct_calls < MaxDirectCalls
    /\ batch \in ExecutionBatchesOf(provider_name)
    /\ direct_calls' = direct_calls + 1
    /\ LET tool_calls == AsReturnedBy(provider_name, batch)
       IN  last' = [arg |-> tool_calls, shown |-> provider_name,
                    op |-> "execute_tool_calls", channel_id |-> None,
                    ret |-> ProviderExecuteToolCalls(tool_calls, provider_name)]
    /\ UNCHANGED <<settings, conversations, channel_providers,
                   bot_current_provider, user_agents, registry_user_agents,
                   turn, redis, redis_store, tasks, agents_file,
                   agents_config, updated_order, slack>>

\* The longest message list chat_completion is given on its own.
MaxRequestMessages == 3

\* The message lists chat_completion is given: any roles, the content of a
\* message telling its place.
RequestLists ==
    UNION { { [i \in 1..n |-> [role |-> roles[i],
                               content |-> <<"m1", "m2", "m3", "m4">>[i]]] :
                roles \in [1..n -> MessageRoles] } :
            n \in 0..MaxRequestMessages }

\* provider.chat_completion(messages) up to the request it sends.
CallChatCompletion(provider_name, messages) ==
    /\ last' = [arg |-> messages, shown |-> provider_name,
                op |-> "chat_completion", channel_id |-> None,
                ret |-> RequestMessages(provider_name, messages)]
    /\ UNCHANGED <<settings, conversations, channel_providers,
                   bot_current_provider, user_agents, registry_user_agents,
                   turn, direct_calls, redis, redis_store, tasks, agents_file,
                   agents_config, updated_order, slack>>

\* ------------------------------------------------------------ Slack events

\* The message events the webhook hands to SlackBot.handle_message_event. A
\* key the event does not have is None; text is a string, as in Slack's
\* event schema: empty, blank or a message.
SlackEvents ==
    [bot_id : {None, "B1"}, text : {None, "", "   ", MessageText},
     channel : {None, "c1"}, user : {None, "u1"}, ts : {"ts1", "ts2"}]

\* event.get("text", "").strip()
StrippedText(event) ==
    IF event.text \in {None, "   "} THEN "" ELSE event.text

\* An early return that knows bots only.
IgnoredOnlyBots(event) == Truthy(event.bot_id)

\* The early returns of handle_message_event.
IgnoredEvent(event) ==
    \/ Truthy(event.bot_id)
    \/ ~Truthy(StrippedText(event))
    \/ ~Truthy(event.channel)
    \/ ~Truthy(event.user)

SlackErrorText ==
    <<"Sorry, I encountered an error processing your message. Please try again.">>

\* An error message that goes to the channel, outside the thread.
ErrorReportUnthreaded(event) ==
    [channel |-> event.channel, text |-> SlackErrorText, thread_ts |-> None]

\* The send_message of the except branch of handle_message_event.
ErrorReport(event) ==
    [channel |-> event.channel, text |-> SlackErrorText,
     thread_ts |-> event.ts]

\* The send_message that answers the event.
Reply(event, result) ==
    [channel |-> event.channel, text |-> result.response,
     thread_ts |-> event.ts]

\* chat_postMessage returns, or raises (SlackApiError, no connection).
SendOutcomes == {"ok", "raises"}

\* send_message was called with `message` and ended as `outcome`.
Called(message, outcome) ==
    [channel |-> message.channel, text |-> message.text,
     thread_ts |-> message.thread_ts, outcome |-> outcome]

\* _process_event to the return of handle_webhook, for an event the handler
\* returns on at once.
SlackEventIgnored(event) ==
    /\ slack.pc = "idle"
    /\ IgnoredEvent(event)
    /\ slack' = [slack EXCEPT !.pc = "done", !.event = event, !.ack = "ok"]
    /\ UNCHANGED <<settings, conversations, channel_providers,
                   bot_current_provider, user_agents, registry_user_agents,
                   turn, direct_calls, last, redis, redis_store, tasks,
                   agents_file, agents_config, updated_order>>

\* handle_message_event up to the first await of process_message.
SlackEventProcessed(event) ==
    /\ slack.pc = "idle"
    /\ ~IgnoredEvent(event)
    /\ ProcessMessageStart("t1", event.user, event.channel, TRUE)
    /\ slack' = [slack EXCEPT !.pc = "processing", !.event = event]

\* process_message is back: the handler sends the response, or goes to its
\* except branch when process_message or send_message raised.
SlackSendReply(outcome) ==
    /\ slack.pc = "processing"
    /\ turn["t1"].pc = "done"
    /\ IF turn["t1"].result.error = "raised"
       THEN slack' = [slack EXCEPT !.pc = "failing", !.raised = TRUE]
       ELSE LET call == Called(Reply(slack.event, turn["t1"].result), outcome)
            IN  IF outcome = "ok"
                THEN slack' = [slack EXCEPT !.pc = "done", !.ack = "ok",
                                            !.calls = Append(@, call)]
                ELSE slack' = [slack EXCEPT !.pc = "failing", !.raised = TRUE,
                                            !.calls = Append(@, call)]
    /\ UNCHANGED <<settings, conversations, channel_providers,
                   bot_current_provider, user_agents, registry_user_agents,
                   turn, direct_calls, last, redis, redis_store, tasks,
                   agents_file, agents_config, updated_order>>

\* The except branch of handle_message_event: the error message is sent, what
\* sending it raises is dropped, and handle_webhook returns status ok.
SlackSendError(outcome) ==
    /\ slack.pc = "failing"
    /\ slack' = [slack EXCEPT !.pc = "done", !.ack = "ok",
                              !.calls = Append(@, Called(ErrorReport(slack.event),
                                                         outcome))]
    /\ UNCHANGED <<settings, conversations, channel_providers,
                   bot_current_provider, user_agents, registry_user_agents,
                   turn, direct_calls, last, redis, redis_store, tasks,
                   agents_file, agents_config, updated_order>>

\* ------------------------------------------------------- POST /api/ai/chat

\* The Authorization header of a request: none, a bearer token that
\* verify_token rejects, a bearer token it accepts.
Tokens == {"missing", "wrong", "valid"}

\* The status codes JWTBearer.__call__ can end with; 200 stands for
\* returning the credentials. Without a header HTTPBearer.__call__ raises
\* before any line of JWTBearer is reached, with the status of the installed
\* FastAPI: 403 up to release 0.121, 401 from 0.122 on.
AuthStatuses(token) ==
    CASE token = "missing" -> {401, 403}
      [] token = "wrong" -> {403}
      [] token = "valid" -> {200}

\* chat_with_ai when auth_scheme raised: the route's body is not run.
PostChatRejected(token) ==
    /\ direct_calls < MaxDirectCalls
    /\ direct_calls' = direct_calls + 1
    /\ \E status_code \in AuthStatuses(token) :
          /\ status_code # 200
          /\ last' = [arg |-> token, shown |-> None, op |-> "post_chat",
                      channel_id |-> None, ret |-> status_code]
    /\ UNCHANGED <<settings, conversations, channel_providers,
                   bot_current_provider, user_agents, registry_user_agents,
                   turn, redis, redis_store, tasks, agents_file,
                   agents_config, updated_order, slack>>

\* chat_with_ai when auth_scheme returned the credentials: process_message
\* of a new ChatProcessor.
PostChatAccepted(token, user_id, channel_id, use_tools) ==
    /\ 200 \in AuthStatuses(token)
    /\ StartTurn("t2", user_id, channel_id, use_tools)

\* ----------------------------------------------------- agent configuration

\* agents.json is edited, replaced, truncated or removed.
WriteAgentsFile(file) ==
    /\ file # agents_file
    /\ agents_file' = file
    /\ UNCHANGED <<settings, conversations, channel_providers,
                   bot_current_provider, user_agents, registry_user_agents,
                   turn, direct_calls, last, redis, redis_store, tasks,
                   agents_config, updated_order, slack>>

\* POST /api/ai/agents/reload: agent_manager.reload_agents_config().
\* `arg` is what the file held when it was read.
ReloadAgents ==
    /\ direct_calls < MaxDirectCalls
    /\ direct_calls' = direct_calls + 1
    /\ LET reloaded == ReloadAgentsConfig(agents_config, agents_file)
       IN  /\ agents_config' = reloaded.config
           /\ last' = [arg |-> agents_file, shown |-> None,
                       op |-> "reload_agents_config", channel_id |-> None,
                       ret |-> reloaded.ret]
    /\ UNCHANGED <<settings, conversations, channel_providers,
                   bot_current_provider, user_agents, registry_user_agents,
                   turn, redis, redis_store, tasks, agents_file, updated_order,
                   slack>>

\* agent_manager.get_user_system_prompt(user_id, channel_id)
CallGetUserSystemPrompt(user_id, channel_id) ==
    /\ direct_calls < MaxDirectCalls
    /\ direct_calls' = direct_calls + 1
    /\ last' = [arg |-> user_id, shown |-> None,
                op |-> "get_user_system_prompt", channel_id |-> channel_id,
                ret |-> UserSystemPromptIn(agents_config, user_agents,
                                           user_id, channel_id)]
    /\ UNCHANGED <<settings, conversations, channel_providers,
                   bot_current_provider, user_agents, registry_user_agents,
                   turn, redis, redis_store, tasks, agents_file,
                   agents_config, updated_order, slack>>

\* agent_manager.get_user_tools(user_id, channel_id)
CallGetUserTools(user_id, channel_id) ==
    /\ direct_calls < MaxDirectCalls
    /\ direct_calls' = direct_calls + 1
    /\ last' = [arg |-> user_id, shown |-> None,
                op |-> "get_user_tools", channel_id |-> channel_id,
                ret |-> UserToolsIn(agents_config, user_agents,
                                    user_id, channel_id)]
    /\ UNCHANGED <<settings, conversations, channel_providers,
                   bot_current_provider, user_agents, registry_user_agents,
                   turn, redis, redis_store, tasks, agents_file,
                   agents_config, updated_order, slack>>

\* ---------------------------------------------------------- persistence tasks

Remove(s, i) == SubSeq(s, 1, i - 1) \o SubSeq(s, i + 1, Len(s))

\* The loop of _save_conversations reaches `for` again: the iterator raises
\* RuntimeError when the dict changed size, stops when every value was seen,
\* or yields a conversation whose to_dict is handed to save_conversation,
\* where the task awaits the answer to SET.
SaveLoop(i, size, visited) ==
    IF Cardinality(DOMAIN conversations) # size
    THEN tasks' = Remove(tasks, i)
    ELSE IF DOMAIN conversations \subseteq visited
         THEN tasks' = Remove(tasks, i)
         ELSE \E key \in DOMAIN conversations \ visited :
                 LET data == ConversationToDict(conversations[key])
                 IN  tasks' = [tasks EXCEPT ![i] =
                         [@ EXCEPT !.pc = "command", !.size = size,
                                   !.visited = visited \cup {key},
                                   !.write = [key |-> GetKey(data.user_id,
                                                             data.channel_id),
                                              data |-> data]]]

\* The event loop runs the oldest task that has not started, up to its first
\* await. Without a client save_conversation and delete_conversation return
\* False at once, so the task ends without ever waiting.
StartTask ==
    \E i \in DOMAIN tasks :
        /\ tasks[i].pc = "start"
        /\ \A j \in 1..(i - 1) : tasks[j].pc # "start"
        /\ IF redis = "None"
           THEN tasks' = Remove(tasks, i)
           ELSE IF tasks[i].kind = "save"
                THEN SaveLoop(i, Cardinality(DOMAIN conversations), {})
                ELSE tasks' = [tasks EXCEPT ![i] =
                         [@ EXCEPT !.pc = "command",
                                   !.write = [key |-> GetKey("shared",
                                                             tasks[i].channel_id),
                                              data |-> <<>>]]]
        /\ UNCHANGED <<settings, conversations, channel_providers,
                       bot_current_provider, user_agents, registry_user_agents,
                       turn, direct_calls, last, redis, redis_store,
                       agents_file, agents_config, updated_order, slack>>

\* The command a task waits for is answered, in whatever order the commands
\* of the waiting tasks reach the server, and the task runs on to its next
\* await or to its end.
CommandAnswered(i) ==
    /\ tasks[i].pc = "command"
    /\ IF tasks[i].kind = "save"
       THEN /\ redis_store' =
                   SaveConversation(redis, redis_store, tasks[i].write.data).store
            /\ SaveLoop(i, tasks[i].size, tasks[i].visited)
       ELSE /\ redis_store' =
                   DeleteConversation(redis, redis_store, "shared",
                                      tasks[i].channel_id).store
            /\ tasks' = Remove(tasks, i)
    /\ UNCHANGED <<settings, conversations, channel_providers,
                   bot_current_provider, user_agents, registry_user_agents,
                   turn, direct_calls, last, redis, agents_file, agents_config,
                   updated_order, slack>>

\* ----------------------------------------------------------- specifications

\* The steps of the turns, the provider's first answer carrying a batch of
\* `batches` and its second one a batch of `second_batches`.
TurnNext(batches, second_batches) ==
    \/ \E t \in Turns, user_id \in Users, channel_id \in Channels,
          use_tools \in BOOLEAN : StartTurn(t, user_id, channel_id, use_tools)
    \/ \E t \in Turns : ChatCompletionRaises(t)
    \/ \E t \in Turns : ChatCompletionReturns(t)
    \/ \E t \in Turns, batch \in batches : ChatCompletionReturnsToolCalls(t, batch)
    \/ \E t \in Turns, batch \in second_batches : SecondCompletionReturns(t, batch)

\* A /clear arriving while turns run.
ClearDuringTurns(user_id, channel_id) ==
    /\ direct_calls < MaxClears
    /\ CallClearConversation(user_id, channel_id)

\* Turns running side by side, and a /clear arriving at any moment.
Next ==
    \/ TurnNext(ToolBatches, SecondBatches)
    \/ \E user_id \in Users, channel_id \in Channels :
          ClearDuringTurns(user_id, channel_id)

Spec == Init /\ [][Next]_vars

\* The conversation store driven call by call.
StoreNext ==
    \/ \E user_id \in Users, channel_id \in Channels :
          CallAddUserMessage(user_id, channel_id)
    \/ \E user_id \in Users, channel_id \in Channels :
          CallAddAiResponse(user_id, channel_id)
    \/ \E user_id \in Users, channel_id \in Channels :
          CallAddToolResult(user_id, channel_id)
    \/ \E user_id \in Users, channel_id \in Channels :
          CallClearConversation(user_id, channel_id)

StoreSpec == Init /\ [][StoreNext]_vars

\* Turns and the provider routing table.
RoutingNext ==
    \/ TurnNext(SwitchBatches, {<<>>})
    \/ \E channel_id \in Channels, provider_name \in RequestedProviders :
          CallSetProviderForChannel(channel_id, provider_name)
    \/ \E channel_id \in Channels : CallClearChannelProvider(channel_id)

RoutingSpec == Init /\ [][RoutingNext]_vars

\* The routes that switch and reset the provider of a channel.
RouteNext ==
    \/ \E channel_id \in Channels, provider \in RequestedProviders :
          SwitchProvider(channel_id, provider)
    \/ \E channel_id \in Channels : ResetProvider(channel_id)

RouteSpec == Init /\ [][RouteNext]_vars

\* Conversations built message by message, of any role, and trimmed by the
\* limit check of add_user_message and add_ai_response.
TrimNext ==
    \/ \E user_id \in Users, channel_id \in Channels :
          CallAddUserMessage(user_id, channel_id)
    \/ \E user_id \in Users, channel_id \in Channels :
          CallAddAiResponse(user_id, channel_id)
    \/ \E channel_id \in Channels, role \in MessageRoles :
          CallConversationAddMessage(channel_id, role)

TrimSpec == Init /\ [][TrimNext]_vars

\* The tool calls of the turns that run beside the persistence tasks.
PersistBatches == {<<OkCall>>}

\* Turns and a /clear with redis_host set: every call of the store leaves a
\* task behind, and the tasks run between the steps of the turns.
PersistNext ==
    \/ TurnNext(PersistBatches, {<<>>})
    \/ \E user_id \in Users, channel_id \in Channels :
          ClearDuringTurns(user_id, channel_id)
    \/ StartTask
    \/ \E i \in DOMAIN tasks : CommandAnswered(i)

PersistSpec == PersistInit /\ [][PersistNext]_vars

\* Turns and the switches of agent, by tool call and by the /agent command.
AgentNext ==
    \/ TurnNext(AgentBatches, {<<>>})
    \/ \E user_id \in Users, channel_id \in Channels, agent_id \in RequestedAgents :
          CallSwitchAgent(user_id, channel_id, agent_id)

AgentSpec == Init /\ [][AgentNext]_vars

\* The agent configuration: the file changes, the reload route reads it, and
\* prompts and tools are resolved from what the manager holds.
AgentConfigNext ==
    \/ \E file \in AgentsFiles : WriteAgentsFile(file)
    \/ ReloadAgents
    \/ \E user_id \in Users, channel_id \in Channels :
          CallGetUserSystemPrompt(user_id, channel_id)
    \/ \E user_id \in Users, channel_id \in Channels :
          CallGetUserTools(user_id, channel_id)

AgentConfigSpec == AgentConfigInit /\ [][AgentConfigNext]_vars

\* Conversations opened and written one after the other, and cleaned up.
CleanupNext ==
    \/ \E user_id \in Users, channel_id \in Channels :
          CallAddUserMessage(user_id, channel_id)
    \/ \E max_conversations \in CleanupCaps :
          CallCleanupConversations(max_conversations)

CleanupSpec == Init /\ [][CleanupNext]_vars

\* The two tool loops, each given a batch.
ToolExecNext ==
    \/ \E provider_name \in ProviderNames, batch \in ExecutionBatches :
          CallExecuteTools(provider_name, batch)
    \/ \E provider_name \in ProviderNames, batch \in ExecutionBatches :
          CallExecuteToolCalls(provider_name, batch)

ToolExecSpec == Init /\ [][ToolExecNext]_vars

\* The providers asked for a completion, each with a list of messages.
RequestNext ==
    \E provider_name \in ProviderNames, messages \in RequestLists :
        CallChatCompletion(provider_name, messages)

RequestSpec == Init /\ [][RequestNext]_vars

\* Requests to POST /api/ai/chat with and without a token that passes, and
\* the turns of those that pass.
AuthNext ==
    \/ \E token \in Tokens : PostChatRejected(token)
    \/ \E token \in Tokens, user_id \in Users, channel_id \in Channels,
          use_tools \in BOOLEAN :
          PostChatAccepted(token, user_id, channel_id, use_tools)
    \/ ChatCompletionRaises("t2")
    \/ ChatCompletionReturns("t2")

AuthSpec == Init /\ [][AuthNext]_vars

\* One Slack message event, from the webhook to its answer.
SlackNext ==
    \/ \E event \in SlackEvents : SlackEventIgnored(event)
    \/ \E event \in SlackEvents : SlackEventProcessed(event)
    \/ ChatCompletionRaises("t1")
    \/ ChatCompletionReturns("t1")
    \/ \E batch \in PersistBatches : ChatCompletionReturnsToolCalls("t1", batch)
    \/ SecondCompletionReturns("t1", <<>>)
    \/ \E outcome \in SendOutcomes : SlackSendReply(outcome)
    \/ \E outcome \in SendOutcomes : SlackSendError(outcome)

SlackSpec == Init /\ [][SlackNext]_vars

\* Two turns side by side, each suspended at its calls of chat_completion,
\* under a limit that the messages of both may or may not exceed.
ConcurrentNext == TurnNext(PersistBatches, {<<>>})

ConcurrentSpec == RoomyInit /\ [][ConcurrentNext]_vars

\* A call of the store that is given a channel, made while a turn runs.
FrameStoreCall(channel_id) ==
    /\ direct_calls < MaxFrameCalls
    /\ \/ CallAddUserMessage("u1", channel_id)
       \/ CallAddAiResponse("u1", channel_id)
       \/ CallAddToolResult("u1", channel_id)
       \/ CallGetConversationContext("u1", channel_id)
       \/ CallClearConversation("u1", channel_id)

\* Every operation that is given a channel: the calls of the store, the
\* routes that bind and reset a channel's provider, and the steps of a turn
\* of another user on any channel.
FrameNext ==
    \/ \E channel_id \in Channels : FrameStoreCall(channel_id)
    \/ \E channel_id \in Channels, provider \in RequestedProviders \ {"openai"} :
          SwitchProvider(channel_id, provider)
    \/ \E channel_id \in Channels : ResetProvider(channel_id)
    \/ \E channel_id \in Channels, use_tools \in BOOLEAN :
          StartTurn("t2", "u2", channel_id, use_tools)
    \/ ChatCompletionRaises("t2")
    \/ ChatCompletionReturns("t2")
    \/ \E batch \in SwitchBatches : ChatCompletionReturnsToolCalls("t2", batch)
    \/ SecondCompletionReturns("t2", <<>>)

FrameSpec == FrameInit /\ [][FrameNext]_vars

\* -------------------------------------------------------------- properties

Last(s) == s[Len(s)]

ConvMessages(convs, key) == IF Has(convs, key) THEN convs[key].messages ELSE <<>>

\* The messages of one role that turn t put into the conversation under key.
TurnMessages(convs, key, t, role) ==
    SelectSeq(ConvMessages(convs, key), LAMBDA m : m.origin = t /\ m.role = role)

\* Turn t ends in this step.
Ends(t) == InFlight(t) /\ turn'[t].pc = "done"

\* C1 (as amended): the user message is the last message of the channel's
\* conversation when chat_completion is first called, and when chat_completion
\* raises, ending the turn removes the message only through the cap's trim: a
\* message that is in the conversation when the call raises, the conversation
\* holding fewer messages than the cap, is still there after the turn.
C1_UserMessageKeptOnProviderError ==
    [][\A t \in Turns :
        LET r == turn'[t]
            key == KeyOf(r)
        IN  /\ (turn[t].pc = "idle" /\ r.pc = "dispatch") =>
                  /\ turn[t].completions = 0
                  /\ Has(conversations', key)
                  /\ Last(conversations'[key].messages) =
                         Message("user", UserTaggedContent(r.user_id, r.message),
                                 r.user_id, t)
            /\ (/\ Ends(t)
                /\ r.result.error = "provider_error"
                /\ TurnMessages(conversations, key, t, "user") # <<>>
                /\ Len(ConvMessages(conversations, key)) < MaxMessagesPerConversation)
               => TurnMessages(conversations', key, t, "user") # <<>>
      ]_vars

\* C1, witness: a turn ended by a raising chat_completion whose user message
\* is in the conversation.
C1_Witness ==
    \E t \in Turns :
        /\ turn[t].pc = "done"
        /\ turn[t].result.error = "provider_error"
        /\ TurnMessages(conversations, KeyOf(turn[t]), t, "user") # <<>>

\* C1 as stated: whenever chat_completion raises, the turn's user message is
\* in the conversation after the turn.
C1_AsStated ==
    [][\A t \in Turns :
        (Ends(t) /\ turn'[t].result.error = "provider_error")
        => TurnMessages(conversations', KeyOf(turn'[t]), t, "user") # <<>>
      ]_vars

\* Handling the tool calls raised somewhere: a call could not be parsed, or a
\* tool's execute raised.
ToolHandlingRaised(tool_calls, provider_name) ==
    \E i \in DOMAIN tool_calls :
        \/ ParseRaises(tool_calls[i], provider_name)
        \/ tool_calls[i].name \in RegisteredTools /\ tool_calls[i].effect = "raises"

\* C2 (as amended): every exception that reaches the turn boundary (raised by
\* chat_completion, or while the assistant message listing the tool calls is
\* built) ends the turn with a result whose error is set and whose response is
\* the error text; if the channel's conversation still exists exactly one
\* assistant message carrying that text is appended, as the last message, and
\* if it was cleared meanwhile nothing is appended and nothing is created. A
\* turn that ends otherwise returns the provider's content and no error.
C2_ErrorsEndTheTurnWithAnErrorResult ==
    [][\A t \in Turns :
        Ends(t) =>
            LET r == turn'[t]
                key == KeyOf(r)
            IN  IF r.result.error # None
                THEN /\ r.result.error \in {"provider_error", "attribute_error"}
                     /\ r.result.error = "attribute_error"
                            => AssistantMessageRaises(r.tool_calls)
                     /\ r.result.response = ErrorResponse(r.result.error)
                     /\ Has(conversations, key) =>
                            /\ Has(conversations', key)
                            /\ Last(conversations'[key].messages) =
                                   Message("assistant", r.result.response, None, t)
                            /\ Len(TurnMessages(conversations', key, t, "assistant")) = 1
                     /\ ~Has(conversations, key) => conversations' = conversations
                ELSE r.result.response \in {<<FirstContent>>, <<SecondContent>>}
      ]_vars

\* C2, witness: a turn ended by the exception raised while its tool calls were
\* handled, the error text being the last message of its conversation.
C2_Witness ==
    \E t \in Turns :
        /\ turn[t].pc = "done"
        /\ turn[t].result.error = "attribute_error"
        /\ Has(conversations, KeyOf(turn[t]))
        /\ Last(conversations[KeyOf(turn[t])].messages) =
               Message("assistant", turn[t].result.response, None, t)

\* C2 as stated: a turn in which handling the tool calls raised ends with the
\* error set, the error text as response and one assistant message carrying it.
C2_AsStated ==
    [][\A t \in Turns :
        (Ends(t) /\ ToolHandlingRaised(turn'[t].tool_calls, turn'[t].provider))
        => LET r == turn'[t]
           IN  /\ r.result.error # None
               /\ r.result.response = ErrorResponse(r.result.error)
               /\ Len(TurnMessages(conversations', KeyOf(r), t, "assistant")) = 1
      ]_vars

\* The outputs _execute_tools has for the calls of a batch that were parsed,
\* found in the registry and executed without raising.
ExecutedOutputs(tool_calls, provider_name) ==
    { ToolContent(tool_calls[i].name, JsonDumps(ToolResultDump(tool_calls[i]))) :
        i \in { j \in DOMAIN tool_calls :
                  /\ ~ParseRaises(tool_calls[j], provider_name)
                  /\ tool_calls[j].name \in RegisteredTools
                  /\ tool_calls[j].effect # "raises" } }

MixedBatch(tool_calls) ==
    /\ \E i \in DOMAIN tool_calls : tool_calls[i].name \notin RegisteredTools
    /\ \E i \in DOMAIN tool_calls :
          tool_calls[i].name \in RegisteredTools /\ tool_calls[i].effect = "raises"

\* C3 as stated: a turn whose batch of tool calls holds one naming an
\* unregistered tool and one whose execute raises, and whose provider answers
\* both calls, ends with no error, and the tool outputs it appended are those
\* of the calls that executed.
C3_AsStated ==
    [][\A t \in Turns :
        (/\ Ends(t)
         /\ MixedBatch(turn'[t].tool_calls)
         /\ turn'[t].result.error # "provider_error")
        => LET r == turn'[t]
               outputs == TurnMessages(conversations', KeyOf(r), t, "tool")
           IN  /\ r.result.error = None
               /\ \A i \in DOMAIN outputs :
                     outputs[i].content \in ExecutedOutputs(r.tool_calls, r.provider)
      ]_vars

\* a is b with some entries left out, the order kept.
RECURSIVE IsSubsequence(_, _)
IsSubsequence(a, b) ==
    IF a = <<>> THEN TRUE
    ELSE IF b = <<>> THEN FALSE
    ELSE IF Head(a) = Head(b) THEN IsSubsequence(Tail(a), Tail(b))
    ELSE IsSubsequence(a, Tail(b))

\* The max_messages arguments get_conversation_context is called with.
ContextLimits == {<<>>, <<1>>, <<2>>, <<5>>}

\* C4: whatever calls were made, get_conversation_context returns at most
\* max_messages_per_conversation entries, in the order of the conversation's
\* list, each with role user or assistant.
C4_ContextIsBoundedOrderedAndFiltered ==
    \A user_id \in Users, channel_id \in Channels, max_messages \in ContextLimits :
        LET context == GetConversationContext(conversations, user_id, channel_id,
                                              max_messages)
            key == ConversationKey(user_id, channel_id)
            stored == ConvMessages(conversations, key)
        IN  /\ Len(context) <= MaxMessagesPerConversation
            /\ \A i \in DOMAIN context : context[i].role \in {"user", "assistant"}
            /\ IsSubsequence(context, [i \in DOMAIN stored |-> ToDict(stored[i])])

\* C4, witness: a conversation longer than the cap that holds tool messages,
\* its context holding some of its messages.
C4_Witness ==
    \E channel_id \in Channels :
        LET key == ConversationKey("u1", channel_id)
            stored == ConvMessages(conversations, key)
        IN  /\ Len(stored) > MaxMessagesPerConversation
            /\ \E i \in DOMAIN stored : stored[i].role = "tool"
            /\ GetConversationContext(conversations, "u1", channel_id, <<>>) # <<>>

C6_NoConversationWithoutUserMessage ==
    [][/\ \A user_id \in Users :
            (/\ direct_calls' # direct_calls
             /\ last'.op \in {"add_ai_response", "add_tool_result"}
             /\ ~Has(conversations, ConversationKey(user_id, last'.channel_id)))
            => /\ last'.ret = None
               /\ conversations' = conversations
       /\ \A k \in DOMAIN conversations' :
            k \notin DOMAIN conversations =>
               /\ last'.op = "add_user_message"
               /\ conversations'[k].channel_id = last'.channel_id
               /\ Len(conversations'[k].messages) = 1
               /\ conversations'[k].messages[1].role = "user"
      ]_vars

\* C6, witness: add_ai_response or add_tool_result just returned None for a
\* channel that has no conversation.
C6_Witness ==
    /\ last.op \in {"add_ai_response", "add_tool_result"}
    /\ last.ret = None
    /\ \A user_id \in Users :
          ~Has(conversations, ConversationKey(user_id, last.channel_id))

\* C7: a turn calls chat_completion at most twice, the second time only after a
\* first answer with tool calls; the second answer's content is the turn's
\* response, and the tool calls it carries are not executed: the step that
\* takes it adds no tool output and leaves the turn's tool results alone.
C7_OneRedispatchRound ==
    [][\A t \in Turns :
        LET r == turn'[t]
            key == KeyOf(r)
        IN  /\ r.completions <= 2
            /\ r.completions = 2 => r.tool_calls # <<>>
            /\ (turn[t].pc = "redispatch" /\ r.pc = "done") =>
                  /\ r.completions = 2
                  /\ r.tool_results = turn[t].tool_results
                  /\ Len(TurnMessages(conversations', key, t, "tool"))
                        <= Len(TurnMessages(conversations, key, t, "tool"))
                  /\ r.result.error = None => r.result.response = <<SecondContent>>
      ]_vars

\* C7, witness: a finished turn whose second answer carried tool calls and
\* gave the response.
C7_Witness ==
    \E t \in Turns :
        /\ turn[t].pc = "done"
        /\ turn[t].completions = 2
        /\ turn[t].final_tool_calls # <<>>
        /\ turn[t].result.error = None
        /\ turn[t].result.response = <<SecondContent>>

\* C8 as stated: a turn whose provider reports is_available() = false ends at
\* once with the no-provider result and leaves the store as it was.
C8_AsStated ==
    [][\A t \in Turns :
        (/\ turn[t].pc = "idle"
         /\ turn'[t].pc # "idle"
         /\ ~IsAvailable(settings, turn'[t].own_provider))
        => /\ turn'[t].pc = "done"
           /\ turn'[t].result.response = NoProvidersResponse
           /\ conversations' = conversations
      ]_vars

\* C9 as stated: a turn calls, and reports, the provider the routing table
\* gives for its channel when the turn starts.
C9_AsStated ==
    \A t \in Turns :
        (ManagerUp(settings) /\ turn[t].provider # None)
        => /\ turn[t].provider = turn[t].routed
           /\ turn[t].pc = "done" => turn[t].result.provider = turn[t].routed

\* The providers the tool results of a turn ask to switch to, read from the
\* metadata of each tool's result.
RequestedSwitches(tool_results) ==
    { tool_results[i].result.metadata.new_provider :
        i \in { j \in DOMAIN tool_results :
                  /\ "metadata" \in DOMAIN tool_results[j].result
                  /\ "provider_switch" \in DOMAIN tool_results[j].result.metadata } }

\* C10 as stated: once a tool result of a turn asks for a switch to an
\* available provider p, the processor's current provider is p, and the
\* channel's status reports current_provider = p with is_custom = true.
C10_AsStated ==
    [][\A t \in Turns :
        \A p \in RequestedSwitches(turn'[t].tool_results) :
            (/\ turn[t].pc = "dispatch"
             /\ p \in DiscoverProviders(settings)
             /\ IsAvailable(settings, p)
             /\ ManagerUp(settings))
            => LET status == GetProviderStatus(settings, channel_providers',
                                               turn[t].channel_id)
               IN  /\ turn'[t].own_provider = p
                   /\ status.current_provider = p
                   /\ status.is_custom
      ]_vars

\* C11 as stated: once a switch of (user, channel) to a valid agent has
\* succeeded, the next turn of that user in that channel gets that agent's
\* system prompt and tools.
C11_AsStated ==
    [][\A t \in Turns :
        LET r == turn'[t]
            key == UserAgentKey(r.user_id, r.channel_id)
        IN  (/\ turn[t].pc = "idle"
             /\ r.pc = "dispatch"
             /\ Has(registry_user_agents, key))
            => LET agent_id == registry_user_agents[key]
               IN  /\ r.messages[1].content = <<GetAgentSystemPrompt(agent_id)>>
                   /\ r.tools \in {<<>>, SelectSeq(GetAgentTools(agent_id),
                                       LAMBDA name : name \in RegisteredTools)}
      ]_vars

\* C12 as stated: a trim leaves exactly the system messages and the cap most
\* recent other messages, and every message a step retains keeps its place
\* relative to the others.
C12_AsStated ==
    [][\A k \in DOMAIN conversations \cap DOMAIN conversations' :
        LET new == conversations'[k].messages
            appended == conversations[k].messages \o <<Last(new)>>
            others == {"user", "assistant", "tool"}
        IN  conversations'[k] # conversations[k] =>
               /\ (/\ last'.op \in {"add_user_message", "add_ai_response"}
                   /\ Len(appended) > MaxMessagesPerConversation) =>
                     /\ Filter(new, {"system"}) = Filter(appended, {"system"})
                     /\ Filter(new, others) =
                            LastN(Filter(appended, others), MaxMessagesPerConversation)
                     /\ Len(new) = Len(Filter(new, {"system"})) + Len(Filter(new, others))
               /\ IsSubsequence(new, appended)
      ]_vars

\* C13 as stated: for any mix of user, assistant and tool messages,
\* get_conversation_context(channel, N) is exactly the last min(N, k) of the
\* conversation's k user and assistant messages.
C13_AsStated ==
    \A user_id \in Users, channel_id \in Channels, max_messages \in ContextLimits :
        LET key == ConversationKey(user_id, channel_id)
            N == IF max_messages = <<>> THEN MaxMessagesPerConversation
                 ELSE max_messages[1]
        IN  Has(conversations, key) =>
               GetConversationContext(conversations, user_id, channel_id, max_messages)
                   = LastN(LlmMessages(conversations[key].messages), N)

\* The only turn of its channel: t has ended, nothing was cleared, and the
\* conversation of its channel holds no message of anyone else.
OnlyTurnOfChannel(t) ==
    /\ turn[t].pc = "done"
    /\ direct_calls = 0
    /\ \A i \in DOMAIN ConvMessages(conversations, KeyOf(turn[t])) :
          ConvMessages(conversations, KeyOf(turn[t]))[i].origin = t

ClearStep(channel_id) ==
    /\ last' # last
    /\ last'.op = "clear_conversation"
    /\ last'.channel_id = channel_id

\* The channel was cleared and no add_user_message has come for it since, the
\* backing store works and every persistence task has run.
ClearedAndSettled(channel_id) ==
    /\ redis = "up"
    /\ last.op = "clear_conversation"
    /\ last.channel_id = channel_id
    /\ ~Has(conversations, ConversationKey("shared", channel_id))
    /\ tasks = <<>>

\* C15 as stated: clear_conversation returns true exactly when the channel had
\* a conversation and leaves none in memory; a conversation of the channel
\* appears again only by add_user_message, holding that message alone; and
\* once the tasks have run the backing store holds no record of the channel.
C15_AsStated ==
    [][\A channel_id \in Channels :
        LET key == ConversationKey("shared", channel_id)
        IN  /\ ClearStep(channel_id) =>
                  /\ last'.ret = "True" <=> Has(conversations, key)
                  /\ ~Has(conversations', key)
            /\ (~Has(conversations, key) /\ Has(conversations', key)) =>
                  /\ \E t \in Turns : turn[t].pc = "idle" /\ turn'[t].pc = "dispatch"
                                      /\ turn'[t].channel_id = channel_id
                  /\ Len(conversations'[key].messages) = 1
                  /\ conversations'[key].messages[1].role = "user"
            /\ ClearedAndSettled(channel_id)' =>
                  ~Has(redis_store', GetKey("shared", channel_id))
      ]_vars

\* C16 as stated: with the backing store working, once every persistence
\* task has run, each channel that has a conversation has its record under
\* GetKey, equal to the conversation's to_dict (user_id, channel_id, role and
\* content of every message but the tool messages), however the turns ran.
C16_AsStated ==
    (redis = "up" /\ tasks = <<>>) =>
        \A key \in DOMAIN conversations :
            LET conv == conversations[key]
                stored == GetKey(conv.user_id, conv.channel_id)
            IN  /\ Has(redis_store, stored)
                /\ redis_store[stored] = ConversationToDict(conv)

\* C17: with the backing store unavailable (no client) or its commands
\* failing, no call of add_user_message, add_ai_response, add_tool_result or
\* clear_conversation raises; memory changes as the call defines (the user
\* message is appended, the answer is appended to an existing conversation,
\* the tool records are appended, the cleared conversation is gone); the turn
\* ends with the provider's content and no error; and the store is not written.
C17_StoreFailuresStayInTheTasks ==
    [][redis # "up" =>
        /\ last'.ret # "raised"
        /\ redis_store' = redis_store
        /\ \A channel_id \in Channels :
              ClearStep(channel_id) =>
                  ~Has(conversations', ConversationKey("shared", channel_id))
        /\ \A t \in Turns :
              LET r == turn'[t]
                  key == KeyOf(r)
              IN  /\ r.result.error # "raised"
                  /\ (turn[t].pc = "idle" /\ r.pc = "dispatch") =>
                        /\ Has(conversations', key)
                        /\ Last(conversations'[key].messages).role = "user"
                        /\ Last(conversations'[key].messages).content
                               = UserTaggedContent(r.user_id, r.message)
                  /\ (turn[t].pc = "dispatch" /\ r.pc = "redispatch"
                      /\ Has(conversations, key)) =>
                        Len(conversations'[key].messages)
                            = Len(conversations[key].messages) + Len(r.tool_results)
                  /\ (Ends(t) /\ r.result.error = None) =>
                        /\ r.result.response \in {<<FirstContent>>, <<SecondContent>>}
                        /\ Has(conversations, key) =>
                              /\ Has(conversations', key)
                              /\ Last(conversations'[key].messages).role = "assistant"
                              /\ Last(conversations'[key].messages).content
                                     = r.result.response
      ]_vars

\* C17, witness: the store's commands fail, a turn that ran tools has ended
\* with its normal result, every task has run, and the conversation the turn
\* left in memory has no record in the store.
C17_Witness ==
    \E t \in Turns :
        /\ redis = "failing"
        /\ turn[t].pc = "done"
        /\ turn[t].result.error = None
        /\ turn[t].tool_results # <<>>
        /\ tasks = <<>>
        /\ Has(conversations, KeyOf(turn[t]))
        /\ ~Has(redis_store, GetKey("shared", turn[t].channel_id))

\* The entry _execute_tools records for the call tc, whatever its place.
ProducedBy(tool_result, tc) ==
    IF tool_result.tool_name = "unknown"
    THEN JsonDumps(tool_result.result) = JsonDumps(ParsingErrorResult)
    ELSE /\ tool_result.tool_name = tc.name
         /\ JsonDumps(tool_result.result) = JsonDumps(ToolResultDump(tc))

\* The results follow the calls: each is the entry of one call, and a later
\* result belongs to a later call.
InIssueOrder(tool_results, tool_calls) ==
    \E f \in [DOMAIN tool_results -> DOMAIN tool_calls] :
        /\ \A i, j \in DOMAIN tool_results : i < j => f[i] < f[j]
        /\ \A i \in DOMAIN tool_results : ProducedBy(tool_results[i], tool_calls[f[i]])

\* C18: when a turn has run the tool calls of the provider's answer, the
\* results follow the order in which the provider issued the calls; the tool
\* messages appended to the list sent with the second call, and the tool
\* records appended to the channel's conversation, follow the results.
C18_ToolResultsInIssueOrder ==
    [][\A t \in Turns :
        LET r == turn'[t]
            key == KeyOf(r)
            tool_messages == SelectSeq(r.messages, LAMBDA m : m.role = "tool")
            records == TurnMessages(conversations', key, t, "tool")
        IN  (turn[t].pc = "dispatch" /\ r.tool_calls # <<>>) =>
               /\ InIssueOrder(r.tool_results, r.tool_calls)
               /\ r.pc = "redispatch" =>
                     /\ Len(tool_messages) = Len(r.tool_results)
                     /\ \A i \in DOMAIN tool_messages :
                           /\ tool_messages[i].tool_call_id = r.tool_results[i].tool_call_id
                           /\ tool_messages[i].content
                                  = <<JsonDumps(r.tool_results[i].result)>>
               /\ Has(conversations, key) =>
                     /\ Len(records) = Len(r.tool_results)
                     /\ \A i \in DOMAIN records :
                           records[i].content
                               = ToolContent(r.tool_results[i].tool_name,
                                             JsonDumps(r.tool_results[i].result))
      ]_vars

\* C18, witness: a turn waits for the second answer after a batch of two
\* calls of different tools, both executed and both recorded.
C18_Witness ==
    \E t \in Turns :
        /\ turn[t].pc = "redispatch"
        /\ Len(turn[t].tool_calls) = 2
        /\ Len(turn[t].tool_results) = 2
        /\ turn[t].tool_results[1].tool_name # turn[t].tool_results[2].tool_name
        /\ Len(TurnMessages(conversations, KeyOf(turn[t]), t, "tool")) = 2

\* C19: POST /api/ai/provider/switch with a name that, lowered, is neither
\* "openai" nor "ollama" answers success = false, leaves every binding as it
\* was, and shows the provider the channel had before the call.
C19_UnknownProviderIsRejected ==
    [][(last'.op = "switch_provider" /\ Lower(last'.arg) \notin ProviderNames) =>
          /\ last'.ret = "False"
          /\ channel_providers' = channel_providers
          /\ last'.shown = GetChannelProviderName(settings, channel_providers,
                                                  last'.channel_id)
      ]_vars

\* C19, witness: the switch of a channel that has a binding to an unknown
\* name was answered, and the binding is shown.
C19_Witness ==
    /\ last.op = "switch_provider"
    /\ Lower(last.arg) \notin ProviderNames
    /\ Has(channel_providers, last.channel_id)
    /\ last.shown = channel_providers[last.channel_id]
    /\ last.shown # DefaultProviderName(settings)

\* C20: the global default never changes; and once the provider of a channel
\* has been reset, the channel's provider is the global default and its
\* status has is_custom = false, the other channels keep their bindings, a
\* channel that had no binding leaves the table as it was, and a second reset
\* would change nothing.
C20_ResetRevertsToTheDefault ==
    [][/\ DefaultProviderName(settings') = DefaultProviderName(settings)
       /\ last'.op = "reset_provider" =>
             LET channel_id == last'.channel_id
                 status == GetProviderStatus(settings, channel_providers', channel_id)
             IN  /\ last'.shown = DefaultProviderName(settings)
                 /\ GetChannelProviderName(settings, channel_providers', channel_id)
                        = DefaultProviderName(settings)
                 /\ ~status.is_custom
                 /\ status.default_provider = DefaultProviderName(settings)
                 /\ \A other \in Channels \ {channel_id} :
                       /\ Has(channel_providers', other) <=> Has(channel_providers, other)
                       /\ Has(channel_providers, other) =>
                             channel_providers'[other] = channel_providers[other]
                 /\ ~Has(channel_providers, channel_id) =>
                       channel_providers' = channel_providers
                 /\ ClearChannelProvider(channel_providers', channel_id)
                        = channel_providers'
      ]_vars

\* C20, witness: a channel was reset and has no binding, while the other
\* channel still has its binding to a provider other than the default.
C20_Witness ==
    /\ last.op = "reset_provider"
    /\ ~Has(channel_providers, last.channel_id)
    /\ \E other \in Channels \ {last.channel_id} :
          /\ Has(channel_providers, other)
          /\ channel_providers[other] # DefaultProviderName(settings)

\* C21 as stated: a reload that finds agents.json malformed or unreadable
\* returns false and leaves the configuration exactly as it was.
C21_AsStated ==
    [][(last'.op = "reload_agents_config" /\ direct_calls' # direct_calls
        /\ FileRaises(agents_file))
       => (last'.ret = "False" /\ agents_config' = agents_config)]_vars

C23_AsStated ==
    /\ (last.op = "get_user_system_prompt"
        /\ ~Has(user_agents, UserAgentKey(last.arg, last.channel_id)))
       => last.ret = AgentSystemPromptIn(agents_config,
                                         DefaultAgent(agents_config))
    /\ (last.op = "get_user_tools"
        /\ ~Has(user_agents, UserAgentKey(last.arg, last.channel_id)))
       => last.ret = AgentToolsIn(agents_config, DefaultAgent(agents_config))

\* C24 as stated: without a cap a cleanup removes nothing and returns 0; with
\* a cap k >= 0 it leaves at most k conversations, the ones updated last,
\* each as it was, and returns how many it removed.
C24_AsStated ==
    [][(last'.op = "cleanup_conversations" /\ direct_calls' # direct_calls)
       => LET max_conversations == last'.arg
              before == DOMAIN conversations
              after == DOMAIN conversations'
          IN  IF max_conversations = <<>>
              THEN conversations' = conversations /\ last'.ret = 0
              ELSE LET k == max_conversations[1]
                       n == Len(updated_order)
                       latest == {updated_order[i] :
                                     i \in {j \in 1..n : j > n - k}}
                   IN  /\ Cardinality(after) <= k
                       /\ after = latest
                       /\ \A key \in after : conversations'[key] = conversations[key]
                       /\ last'.ret = Cardinality(before) - Cardinality(after)
      ]_vars

ToolLoops == {"_execute_tools", "execute_tool_calls"}

\* The loop named op cannot read the call tc.
LoopParseRaises(op, tc, provider_name) ==
    IF op = "_execute_tools" THEN ParseRaises(tc, provider_name)
    ELSE ProviderParseRaises(tc, provider_name)

\* C25 as stated: a call of a registered tool that succeeds yields that
\* tool's result, whether its arguments are a JSON string or an
\* already-parsed structure.
C25_AsStated ==
    last.op \in ToolLoops =>
        \A i \in DOMAIN last.arg :
            LET tc == last.arg[i]
            IN  (/\ tc.name \in RegisteredTools
                 /\ tc.effect = "success"
                 /\ tc.arguments \in {"json", "parsed"})
                => \E j \in DOMAIN last.ret : ProducedBy(last.ret[j], tc)

\* C26: when a loop cannot parse a call of its batch, the calls it can read,
\* whose tool is registered and does not raise, yield their results, one
\* each and in the order of the calls.
C26_ParseFailureDoesNotAbortTheBatch ==
    last.op \in ToolLoops =>
        LET runnable == SelectSeq(last.arg, LAMBDA tc :
                            /\ ~LoopParseRaises(last.op, tc, last.shown)
                            /\ tc.name \in RegisteredTools
                            /\ tc.effect # "raises")
            yielded == SelectSeq(last.ret, LAMBDA r : r.tool_name # "unknown")
        IN  (\E i \in DOMAIN last.arg :
                LoopParseRaises(last.op, last.arg[i], last.shown))
            => /\ Len(yielded) = Len(runnable)
               /\ \A i \in DOMAIN yielded :
                     /\ yielded[i].tool_name = runnable[i].name
                     /\ JsonDumps(yielded[i].result)
                            = JsonDumps(ToolResultDump(runnable[i]))

\* C26, witness: a batch whose second call has malformed arguments went
\* through _execute_tools, and the calls around it yielded their results.
C26_Witness ==
    /\ last.op = "_execute_tools"
    /\ Len(last.arg) = 3
    /\ last.arg[2].arguments = "malformed"
    /\ Len(last.ret) = 3
    /\ last.ret[1].tool_name = "WeatherTool"
    /\ last.ret[2].tool_name = "unknown"
    /\ last.ret[3].tool_name = "PayablDocsSearch"

\* C27: the list the Ollama provider sends is as long as the one it was
\* given and has no system message: a system message is sent as an assistant
\* message with the same content in the same place, any other message as it
\* is.
C27_OllamaSendsNoSystemRole ==
    (last.op = "chat_completion" /\ last.shown = "ollama") =>
        /\ Len(last.ret) = Len(last.arg)
        /\ \A i \in DOMAIN last.ret :
              /\ last.ret[i].role # "system"
              /\ last.ret[i].content = last.arg[i].content
              /\ last.arg[i].role = "system" => last.ret[i].role = "assistant"
              /\ last.arg[i].role # "system" => last.ret[i] = last.arg[i]

\* C27, witness: a list with two system messages, the second after a user
\* message, was sent by the Ollama provider.
C27_Witness ==
    /\ last.op = "chat_completion"
    /\ last.shown = "ollama"
    /\ Len(last.arg) = 3
    /\ last.arg[1].role = "system"
    /\ last.arg[2].role = "user"
    /\ last.arg[3].role = "system"
    /\ last.ret[3].role = "assistant"

\* C28 as stated: POST /api/ai/chat without a bearer token is answered 401,
\* with a wrong one 403; in both cases process_message is not called and no
\* conversation changes.
C28_AsStated ==
    [][(last'.op = "post_chat" /\ direct_calls' # direct_calls) =>
          /\ last'.arg = "missing" => last'.ret = 401
          /\ last'.arg = "wrong" => last'.ret = 403
          /\ turn' = turn
          /\ conversations' = conversations
      ]_vars

ErrorCalls == SelectSeq(slack.calls, LAMBDA call : call.text = SlackErrorText)

SuccessfulResults(tool_results) ==
    SelectSeq(tool_results, LAMBDA tool_result : tool_result.result.success)

\* C31 as stated: the tool messages appended to the list of the second call,
\* and the tool records appended to the channel's conversation, are those of
\* the results with success = true and no others.
C31_AsStated ==
    [][\A t \in Turns :
        LET r == turn'[t]
            key == KeyOf(r)
            successes == SuccessfulResults(r.tool_results)
            tool_messages == SelectSeq(r.messages, LAMBDA m : m.role = "tool")
            records == TurnMessages(conversations', key, t, "tool")
        IN  (turn[t].pc = "dispatch" /\ r.pc = "redispatch") =>
               /\ tool_messages = ToolMessages(successes)
               /\ Has(conversations, key) =>
                     /\ Len(records) = Len(successes)
                     /\ \A i \in DOMAIN records :
                           records[i].content
                               = ToolContent(successes[i].tool_name,
                                             JsonDumps(successes[i].result))
      ]_vars

\* The messages of a conversation that are not system messages.
NonSystemMessages(conv) == Filter(conv.messages, {"user", "assistant", "tool"})

\* C32 as stated: whenever add_user_message, add_ai_response or
\* add_tool_result has returned, every conversation holds at most
\* max_messages_per_conversation messages that are not system messages.
C32_AsStated ==
    \A key \in DOMAIN conversations :
        Len(NonSystemMessages(conversations[key])) <= MaxMessagesPerConversation

\* The entries of a message list that carry the text of turn record r's
\* incoming message as a user message, with or without the sender's tag.
IncomingIn(messages, r) ==
    SelectSeq(messages,
              LAMBDA m : /\ m.role = "user"
                         /\ m.content \in {<<r.message>>,
                                           UserTaggedContent(r.user_id, r.message)})

\* C33 as stated: the list handed to the first chat_completion is the agent's
\* system prompt when it is not empty, then the bounded history of the
\* channel, then the incoming user message; in the first turn of a channel,
\* where nothing else carries that text, the incoming message is in the list
\* exactly once.
C33_AsStated ==
    [][\A t \in Turns :
        LET r == turn'[t]
            key == KeyOf(r)
            system_message == GetUserSystemPrompt(user_agents, r.user_id,
                                                  r.channel_id)
            head == IF system_message # ""
                    THEN <<[role |-> "system", content |-> <<system_message>>]>>
                    ELSE <<>>
            history == GetConversationContext(conversations', r.user_id,
                                              r.channel_id, <<>>)
        IN  (turn[t].pc = "idle" /\ r.pc = "dispatch") =>
               /\ r.messages =
                      CallerMessagesAfterCall(r.provider,
                          head \o history
                               \o <<[role |-> "user", content |-> <<r.message>>]>>)
               /\ ~Has(conversations, key) => Len(IncomingIn(r.messages, r)) = 1
      ]_vars

\* C34 as stated: in the list sent with the second call, every id the
\* assistant message lists in tool_calls is the tool_call_id of exactly one
\* tool message, and every tool message answers a listed id.
C34_AsStated ==
    [][\A t \in Turns :
        LET r == turn'[t]
            listed == r.messages[Len(turn[t].messages) + 1].tool_calls
            tool_messages == SelectSeq(r.messages, LAMBDA m : m.role = "tool")
        IN  (turn[t].pc = "dispatch" /\ r.pc = "redispatch") =>
               /\ \A i \in DOMAIN listed :
                     Cardinality({j \in DOMAIN tool_messages :
                                    tool_messages[j].tool_call_id = listed[i].id}) = 1
               /\ \A j \in DOMAIN tool_messages :
                     \E i \in DOMAIN listed :
                        listed[i].id = tool_messages[j].tool_call_id
      ]_vars

\* The tools _execute_tools called execute on: the calls it could read that
\* name a registered tool.
ExecutedTools(tool_calls, provider_name) ==
    { tool_calls[i].name :
        i \in { j \in DOMAIN tool_calls :
                  /\ ~ParseRaises(tool_calls[j], provider_name)
                  /\ tool_calls[j].name \in RegisteredTools } }

\* C35 as stated: the tools a turn executes are among the tools of the agent
\* of its user and channel, and none is executed when use_tools is false
\* (the turn's tools are then empty).
C35_AsStated ==
    [][\A t \in Turns :
        (turn[t].pc = "dispatch" /\ turn'[t].tool_calls # <<>>) =>
            ExecutedTools(turn'[t].tool_calls, CurrentProviderOf(t))
                \subseteq Range(turn[t].tools)
      ]_vars

\* The messages a finished turn appended to its conversation: the user
\* message, one record per tool result, and the response or the error text.
AppendedBy(t) == 2 + Len(turn[t].tool_results)

\* Both turns ran on one channel and came to their end with a result.
BothCompleted(channel_id) ==
    \A t \in Turns :
        /\ turn[t].pc = "done"
        /\ turn[t].channel_id = channel_id
        /\ turn[t].result.provider # "none"

\* C36: when both turns ran on one channel and are over, and what they
\* appended fits under the limit, the channel's conversation holds all of it:
\* of each turn one user message carrying its tagged text and one assistant
\* message carrying the response it returned, and nothing was lost.
C36_ConcurrentTurnsLoseNoAppend ==
    \A channel_id \in Channels :
        (/\ BothCompleted(channel_id)
         /\ AppendedBy("t1") + AppendedBy("t2") <= max_messages_per_conversation)
        => LET key == ConversationKey("shared", channel_id)
           IN  /\ Has(conversations, key)
               /\ Len(conversations[key].messages)
                      = AppendedBy("t1") + AppendedBy("t2")
               /\ \A t \in Turns :
                     /\ TurnMessages(conversations, key, t, "user") =
                            <<Message("user",
                                      UserTaggedContent(turn[t].user_id,
                                                        turn[t].message),
                                      turn[t].user_id, t)>>
                     /\ TurnMessages(conversations, key, t, "assistant") =
                            <<Message("assistant", turn[t].result.response,
                                      None, t)>>

\* C36, witness: the second turn started while the first waited for its
\* provider and ended before it; both answers are in the conversation.
C36_Witness ==
    /\ BothCompleted("c1")
    /\ turn["t1"].result.error = None
    /\ turn["t2"].result.error = None
    /\ LET messages == ConvMessages(conversations, ConversationKey("shared", "c1"))
       IN  /\ Len(messages) = 4
           /\ messages[1].origin = "t1"
           /\ messages[2].origin = "t2"
           /\ messages[3].origin = "t2"
           /\ messages[4].origin = "t1"

\* What the store and the routing table hold for a channel.
HeldFor(convs, bindings, channel_id) ==
    [conversation |-> IF Has(convs, ConversationKey("shared", channel_id))
                      THEN <<convs[ConversationKey("shared", channel_id)]>>
                      ELSE <<>>,
     binding |-> Get(bindings, channel_id, None)]

\* The step is an operation on channel_id: a call of the store or a route
\* given that channel, or a step of a turn made for it.
OperationOn(channel_id) ==
    \/ /\ direct_calls' # direct_calls
       /\ last'.channel_id = channel_id
    \/ /\ channel_providers' # channel_providers
       /\ last'.op \in {"switch_provider", "reset_provider"}
       /\ last'.channel_id = channel_id
    \/ /\ direct_calls' = direct_calls
       /\ channel_providers' = channel_providers
       /\ \E t \in Turns : turn'[t] # turn[t] /\ turn'[t].channel_id = channel_id

PersistedMessages(store, channel_id) ==
    IF Has(store, GetKey("shared", channel_id))
    THEN store[GetKey("shared", channel_id)].messages
    ELSE <<>>

\* C38 as stated: the first turn on a channel after the process started finds
\* the messages the backing store held for that channel in the list it sends
\* to the provider, and no step replaces the record a previous run left by
\* one that lacks its messages.
C38_AsStated ==
    [][/\ \A t \in Turns :
             (/\ turn[t].pc = "idle"
              /\ turn'[t].pc = "dispatch"
              /\ redis = "up"
              /\ ~Has(conversations, KeyOf(turn'[t])))
             => IsSubsequence(PersistedMessages(redis_store, turn'[t].channel_id),
                              turn'[t].messages)
       /\ \A channel_id \in Channels :
             (/\ Has(redis_store, GetKey("shared", channel_id))
              /\ Has(redis_store', GetKey("shared", channel_id)))
             => IsSubsequence(PersistedMessages(LeftBehind, channel_id),
                              PersistedMessages(redis_store', channel_id))
      ]_vars

\* C39 as stated: when the first chat_completion of a turn has been called,
\* the list process_message built with _prepare_messages is what it was
\* before the call, whichever provider was called: a system message in it
\* still has role system.
C39_AsStated ==
    [][\A t \in Turns :
        LET r == turn'[t]
            built == PrepareMessages(user_agents, r.message,
                         GetConversationContext(conversations', r.user_id,
                                                r.channel_id, <<>>),
                         r.user_id, r.channel_id)
        IN  (turn[t].pc = "idle" /\ r.pc = "dispatch") =>
               /\ r.messages = built
               /\ \A i \in DOMAIN built :
                      built[i].role = "system" => r.messages[i].role = "system"
      ]_vars

====
